---- MODULE Spec2Model ----
(***************************************************************************)
(* Reservation and cross-connect provisioning in front of the Polatis      *)
(* optical switch (tcdona3).  Three classes serve the operation surface:   *)
(*   "netconf"      src/polatis/polatis.py          class Polatis          *)
(*   "netconf_old"  src/polatis/polatis_new_old.py  class Polatis          *)
(*   "telnet"       src/polatis.py                  class Polatis          *)
(* The registry holds three tables: device_table (name -> ports),          *)
(* ports_new (name -> ports, Max_Inpower, Owner) and active_bookings       *)
(* (device_name, user_name).  The switch holds the cross-connects, keyed   *)
(* by ingress port.  Powers are in hundredths of a dBm.                    *)
(***************************************************************************)
EXTENDS Integers, Sequences, FiniteSets, TLC

VARIABLES
    impl,             \* the class that serves the surface in this run
    env,              \* the process environment: SUDO_USER and USER
    active_bookings,  \* rows <<device_name, user_name>>
    device_table,     \* polatis_name -> [In_Port, Out_Port]
    ports_new,        \* Name -> [In_Port, Out_Port, Max_Inpower, Owner]
    power,            \* port -> optical power reading of the switch
    patch_list,       \* the patch list the caller submits in this run
    xc,               \* the switch's cross-connects: ingress -> egress
    last,             \* the last call: operation, result, what it did
    prev,             \* the call before it
    race,             \* two callers at once: where each is in its Apply
    arg_type,         \* the Python type of the argument passed as patch_list
    registry_up,      \* whether the registry's database answers in this run
    nc,               \* the NETCONF client: its manager and the sessions it opened
    wait              \* the Apply that sleeps between a write and its read-back

vars == <<impl, env, active_bookings, device_table, ports_new, power,
          patch_list, xc, last, prev, race, arg_type, registry_up, nc, wait>>

(***************************************************************************)
(* Optional values: None is Python's None, SQL NULL, an unset environment  *)
(* variable or a missing row; Some(v) is a value that is there.            *)
(***************************************************************************)
None == <<>>
Some(v) == <<v>>
Val(o) == o[1]

\* The sentinel "no connection on this side".
NULL == "NULL"

\* The longest patch list submitted.
MaxPairs == 2

Names == {"A", "B", NULL}
Pairs == Names \X Names
Requests == UNION {[1..n -> Pairs] : n \in 0..MaxPairs}

\* Every name a patch list mentions, in the order the loops meet them.
RECURSIVE Flatten(_)
Flatten(pl) ==
    IF pl = <<>> THEN <<>> ELSE <<pl[1][1], pl[1][2]>> \o Flatten(Tail(pl))

Referenced(pl) == {pl[i][j] : i \in DOMAIN pl, j \in 1..2}

(***************************************************************************)
(* The registry's rows.                                                    *)
(***************************************************************************)
DeviceRows ==
    "A" :> [In_Port |-> 230, Out_Port |-> 229] @@
    "B" :> [In_Port |-> 406, Out_Port |-> 405]

Max_Inpower_Rows == "A" :> None @@ "B" :> Some(1000)

Restrict(f, S) == [x \in S \cap DOMAIN f |-> f[x]]

PortRowsWith(owners, limits) ==
    [n \in DOMAIN owners |->
        [In_Port |-> DeviceRows[n].In_Port, Out_Port |-> DeviceRows[n].Out_Port,
         Max_Inpower |-> limits[n], Owner |-> owners[n]]]

PortRows(owners) == PortRowsWith(owners, Max_Inpower_Rows)

(***************************************************************************)
(* The inputs of a run.                                                    *)
(***************************************************************************)
Impls == {"netconf", "netconf_old", "telnet"}

Envs ==
    { [SUDO_USER |-> Some("bob"), USER |-> Some("root")],
      [SUDO_USER |-> None, USER |-> Some("alice")],
      [SUDO_USER |-> None, USER |-> None] }

\* Variables that are set but empty.
EmptyEnvs ==
    { [SUDO_USER |-> Some(""), USER |-> Some("alice")],
      [SUDO_USER |-> None, USER |-> Some("")] }

\* active_bookings tables: shared and exclusive bookings, rows whose
\* user_name is '' or NULL, a device without rows, a row for the sentinel.
BookingTables ==
    { { <<"A", Some("alice")>>, <<"A", Some("")>>,
        <<"B", Some("alice")>>, <<"B", Some("bob")>> },
      { <<"A", None>>, <<"B", Some("alice")>> },
      { <<"B", Some("bob")>>, <<NULL, Some("alice")>> } }

\* ports_new.Owner is a comma-separated list, held here as its fields.
OwnerTables ==
    { "A" :> <<"alice">> @@ "B" :> <<"alice", "bob">>,
      "A" :> <<>> @@ "B" :> <<"bob">> }

Presents == { {"A", "B"}, {"A"} }

PowerVals == {500, 1500, 2500}
Ports == {229, 230, 405, 406}
PowerTables == { [p \in Ports |-> Some(v)] : v \in PowerVals }

\* The inputs of the power check: a device's Max_Inpower is unset, zero,
\* negative or positive; a port has no reading, or one below, at or above
\* each of the limits.
MaxInpowerVals == {None, Some(0), Some(-500), Some(1000)}
GuardReadings == {None, Some(-500), Some(500), Some(1000), Some(1500), Some(2000), Some(2500)}
GuardPowerTables == { [p \in Ports |-> r] : r \in GuardReadings }

\* A cross-connect of another user, on ports no device of Names maps to.
OtherXC == 17 :> 18

(***************************************************************************)
(* Python truthiness and `a or b`.                                         *)
(***************************************************************************)
TruthyStr(o) == o # None /\ Val(o) # ""
TruthyNum(o) == o # None /\ Val(o) # 0
PyOr(a, b) == IF TruthyStr(a) THEN a ELSE b

(***************************************************************************)
(* utils.check_patch_owners: the ownership verifier of the NETCONF classes *)
(***************************************************************************)
\* The user taken from USER alone.
unix_user_from_USER(e) == e.USER

\* Line 58: os.getenv("SUDO_USER") or os.getenv("USER").
unix_user(e) == PyOr(e.SUDO_USER, e.USER)

\* The flattened patch list with the sentinel kept.
all_devices_with_null(pl) == Referenced(pl)

all_devices(pl) == {d \in Referenced(pl) : d # NULL}

\* The rows the WHERE clause keeps.
booking_rows(pl, bookings) ==
    {r \in bookings : r[1] \in all_devices(pl) /\ r[2] # None /\ Val(r[2]) # ""}

\* GROUP BY device_name HAVING SUM(user_name = %s) = 0
conflicts(pl, e, bookings) ==
    LET rows == booking_rows(pl, bookings)
    IN {d \in {r[1] : r \in rows} :
          Cardinality({r \in rows : r[1] = d /\ Val(r[2]) = Val(unix_user(e))}) = 0}

\* Whether the call gets as far as the registry query.
queries_registry(pl, e) == TruthyStr(unix_user(e)) /\ all_devices(pl) # {}

\* A verifier that looks at the first pair only.
check_first_pair_only(pl, e, bookings) ==
    IF ~TruthyStr(unix_user(e)) THEN FALSE
    ELSE IF pl = <<>> \/ all_devices(<<pl[1]>>) = {} THEN TRUE
    ELSE conflicts(<<pl[1]>>, e, bookings) = {}

\* A verifier that refuses only when every device is in conflict.
check_any_device_free(pl, e, bookings) ==
    IF ~TruthyStr(unix_user(e)) THEN FALSE
    ELSE IF all_devices(pl) = {} THEN TRUE
    ELSE conflicts(pl, e, bookings) # all_devices(pl)

check_patch_owners(pl, e, bookings) ==
    IF ~TruthyStr(unix_user(e)) THEN FALSE
    ELSE IF all_devices(pl) = {} THEN TRUE
    ELSE conflicts(pl, e, bookings) = {}

owners_log(pl, e) ==
    << <<"check_patch_owners">> >> \o
    (IF queries_registry(pl, e) THEN << <<"query", "active_bookings">> >> ELSE <<>>)

Bool(b) == IF b THEN "True" ELSE "False"

\* mysql.connector.connect (line 70) and cursor.execute (line 92) raise when
\* the registry does not answer; the try has a finally and no except, so
\* the error leaves check_patch_owners in place of a return value.
\* The same call with the error caught and dropped.
registry_error_swallowed(pl, e, up) == FALSE

registry_error(pl, e, up) == ~up /\ queries_registry(pl, e)

\* What check_patch_owners prints: the missing user (line 60), or one line
\* per conflicting device with its owners (lines 97-98).
owners_report(pl, e, bookings) ==
    IF ~TruthyStr(unix_user(e)) THEN { <<"No valid user found in environment.">> }
    ELSE { <<"is owned by", d, {Val(r[2]) : r \in {q \in booking_rows(pl, bookings) : q[1] = d}}>> :
             d \in conflicts(pl, e, bookings) }

\* One call of check_patch_owners: what comes out of it, what it did and
\* what it printed.
verify(pl, e, up, bookings) ==
    [res |-> IF registry_error(pl, e, up) THEN "RegistryError"
             ELSE Bool(check_patch_owners(pl, e, bookings)),
     log |-> owners_log(pl, e),
     out |-> IF registry_error(pl, e, up) THEN {} ELSE owners_report(pl, e, bookings)]

(***************************************************************************)
(* Polatis.check_patch_owners of the telnet class: reads ports_new.Owner   *)
(***************************************************************************)
telnet_unix_user(e) == IF TruthyStr(e.SUDO_USER) THEN e.SUDO_USER ELSE e.USER

InSeq(v, s) == \E i \in DOMAIN s : s[i] = v

nonexistent_ports(pl, pn) == {d \in all_devices(pl) : d \notin DOMAIN pn}

other_owners(pl, e, pn) ==
    {d \in all_devices(pl) \cap DOMAIN pn :
        /\ Len(pn[d].Owner) # 0
        /\ \/ telnet_unix_user(e) = None
           \/ ~InSeq(Val(telnet_unix_user(e)), pn[d].Owner)}

telnet_check_patch_owners(pl, e, pn) ==
    nonexistent_ports(pl, pn) = {} /\ other_owners(pl, e, pn) = {}

RECURSIVE telnet_owner_queries(_)
telnet_owner_queries(names) ==
    IF names = <<>> THEN <<>>
    ELSE (IF Head(names) = NULL THEN <<>>
          ELSE << <<"query", "ports_new.Owner", Head(names)>> >>)
         \o telnet_owner_queries(Tail(names))

telnet_owners_log(pl) ==
    << <<"check_patch_owners">> >> \o telnet_owner_queries(Flatten(pl))

\* The list nonexistent_ports, in the order of the loop.
RECURSIVE nonexistent_list(_, _)
nonexistent_list(names, pn) ==
    IF names = <<>> THEN <<>>
    ELSE (IF Head(names) # NULL /\ Head(names) \notin DOMAIN pn THEN <<Head(names)>> ELSE <<>>)
         \o nonexistent_list(Tail(names), pn)

\* The list other_owners: the Owner rows fetched, without the port names.
RECURSIVE other_owners_list(_, _, _)
other_owners_list(names, e, pn) ==
    IF names = <<>> THEN <<>>
    ELSE (IF Head(names) \in other_owners(<< <<Head(names), NULL>> >>, e, pn)
          THEN <<pn[Head(names)].Owner>> ELSE <<>>)
         \o other_owners_list(Tail(names), e, pn)

\* What the telnet verifier prints (lines 282-285).
telnet_report(pl, e, pn) ==
    (IF nonexistent_list(Flatten(pl), pn) # <<>>
     THEN { <<"Nonexistent ports:", nonexistent_list(Flatten(pl), pn)>> } ELSE {})
    \cup
    (IF other_owners_list(Flatten(pl), e, pn) # <<>>
     THEN { <<"Ports with other owners:", other_owners_list(Flatten(pl), e, pn)>> } ELSE {})

\* One call of the telnet verifier: it connects to the registry (line 251)
\* before it looks at the patch list, and the connection error is not caught.
telnet_verify(pl, e, up, pn) ==
    IF ~up THEN [res |-> "RegistryError", log |-> << <<"check_patch_owners">> >>, out |-> {}]
    ELSE [res |-> Bool(telnet_check_patch_owners(pl, e, pn)), log |-> telnet_owners_log(pl),
          out |-> telnet_report(pl, e, pn)]

(***************************************************************************)
(* The switch.  Cross-connects are keyed by ingress.  A NETCONF            *)
(* edit-config carries <pair> entries: <<"create", ingress, egress>>       *)
(* (default operation, merge) and <<"delete", ingress>>                    *)
(* (nc:operation="delete").  The edit is applied as a whole or not at all; *)
(* deleting a pair that is not there is an error (RFC 6241, data-missing). *)
(* The rpc may also fail for reasons of its own (fault).                   *)
(***************************************************************************)
Connect(x, i, e) == [j \in DOMAIN x \cup {i} |-> IF j = i THEN e ELSE x[j]]
Disconnect(x, i) == [j \in DOMAIN x \ {i} |-> x[j]]

RECURSIVE apply_entries(_, _)
apply_entries(x, entries) ==
    IF entries = <<>> THEN [ok |-> TRUE, xc |-> x]
    ELSE LET en == Head(entries)
         IN IF en[1] = "delete"
            THEN IF en[2] \in DOMAIN x
                 THEN apply_entries(Disconnect(x, en[2]), Tail(entries))
                 ELSE [ok |-> FALSE, xc |-> x]
            ELSE apply_entries(Connect(x, en[2], en[3]), Tail(entries))

edit_config(x, entries, fault) ==
    IF fault THEN [ok |-> FALSE, xc |-> x]
    ELSE LET r == apply_entries(x, entries)
         IN IF r.ok THEN r ELSE [ok |-> FALSE, xc |-> x]

\* get_cross_connects: the <pair> elements read back as (ingress, egress).
get_cross_connects(x) == {<<i, x[i]>> : i \in DOMAIN x}

(***************************************************************************)
(* Name resolution.  A device's switch ingress is its Out_Port, the egress *)
(* its In_Port.  None stands for "no row".                                 *)
(***************************************************************************)
\* The source side resolved to the device's In_Port.
get_inport_swapped(dt, inx) == IF inx \in DOMAIN dt THEN Some(dt[inx].In_Port) ELSE None

get_inport(dt, inx) == IF inx \in DOMAIN dt THEN Some(dt[inx].Out_Port) ELSE None
\* A lookup that answers port 0 for a name without a row.
get_outport_default(dt, outx) == IF outx \in DOMAIN dt THEN Some(dt[outx].In_Port) ELSE Some(0)

\* The destination side resolved to the device's Out_Port.
get_outport_swapped(dt, outx) == IF outx \in DOMAIN dt THEN Some(dt[outx].Out_Port) ELSE None

get_outport(dt, outx) == IF outx \in DOMAIN dt THEN Some(dt[outx].In_Port) ELSE None

\* The resolution loop of apply_patch_list, from pair i on: the pairs
\* resolved, or the first name without a row.
RECURSIVE resolve_pairs(_, _, _)
resolve_pairs(dt, pl, i) ==
    IF i > Len(pl) THEN [err |-> FALSE, pairs |-> <<>>, log |-> <<>>]
    ELSE LET inp == get_inport(dt, pl[i][1])
             outp == get_outport(dt, pl[i][2])
             l1 == << <<"lookup", "Out_Port", pl[i][1]>> >>
             l2 == << <<"lookup", "In_Port", pl[i][2]>> >>
         IN IF inp = None THEN [err |-> TRUE, pairs |-> <<>>, log |-> l1]
            ELSE IF outp = None THEN [err |-> TRUE, pairs |-> <<>>, log |-> l1 \o l2]
            ELSE LET rest == resolve_pairs(dt, pl, i + 1)
                 IN [err |-> rest.err,
                     pairs |-> << <<Val(inp), Val(outp)>> >> \o rest.pairs,
                     log |-> l1 \o l2 \o rest.log]

\* The resolution loop of disconnect_patch_list: the source side only.
RECURSIVE resolve_ingresses(_, _, _)
resolve_ingresses(dt, pl, i) ==
    IF i > Len(pl) THEN [err |-> FALSE, ingresses |-> <<>>, log |-> <<>>]
    ELSE LET inp == get_inport(dt, pl[i][1])
             l1 == << <<"lookup", "Out_Port", pl[i][1]>> >>
         IN IF inp = None THEN [err |-> TRUE, ingresses |-> <<>>, log |-> l1]
            ELSE LET rest == resolve_ingresses(dt, pl, i + 1)
                 IN [err |-> rest.err,
                     ingresses |-> <<Val(inp)>> \o rest.ingresses,
                     log |-> l1 \o rest.log]

\* The pair entries in the opposite order.
create_entries_reversed(pairs) ==
    [i \in DOMAIN pairs |->
        <<"create", pairs[Len(pairs) + 1 - i][1], pairs[Len(pairs) + 1 - i][2]>>]

create_entries(pairs) == [i \in DOMAIN pairs |-> <<"create", pairs[i][1], pairs[i][2]>>]
\* A delete entry for the first ingress only.
delete_entries_first_only(ingresses) ==
    [i \in DOMAIN ingresses \cap {1} |-> <<"delete", ingresses[i]>>]

delete_entries(ingresses) == [i \in DOMAIN ingresses |-> <<"delete", ingresses[i]>>]

\* The argument is a list, or another iterable of pairs (a tuple).
ArgTypes == {"list", "tuple"}

\* `not isinstance(patch_list, list) or not patch_list` raises.
valid_type_only(t, pl) == t = "list"

valid_patch_list(t, pl) == t = "list" /\ pl # <<>>

\* What a call hands back: the result, the switch's cross-connects after
\* it, the calls it made, and the figures an error carries.
ReturnInfo(res, x, log, info) == [res |-> res, xc |-> x, log |-> log, info |-> info]
Return(res, x, log) == ReturnInfo(res, x, log, <<>>)

(***************************************************************************)
(* src/polatis/polatis.py: Polatis.apply_patch_list, disconnect_patch_list *)
(***************************************************************************)
\* Lines 660-674: what apply_patch_list does once the verifier has admitted
\* the patch list.
resolve_and_edit(pl, dt, x, fault) ==
    LET r == resolve_pairs(dt, pl, 1)
        entries == create_entries(r.pairs)
        ed == edit_config(x, entries, fault)
    IN IF r.err THEN Return("NotFoundError", x, r.log)
       ELSE Return(IF ed.ok THEN "ok" ELSE "EditError", ed.xc,
                   r.log \o << <<"edit_config", entries>> >>)

apply_patch_list(t, pl, e, up, bookings, dt, x, fault) ==
    IF ~valid_patch_list(t, pl) THEN Return("ValidationError", x, <<>>)
    ELSE IF verify(pl, e, up, bookings).res = "RegistryError"
    THEN Return("RegistryError", x, owners_log(pl, e))
    ELSE IF ~check_patch_owners(pl, e, bookings)
    THEN Return("AuthorizationError", x, owners_log(pl, e))
    ELSE IF ~up
    THEN Return("RegistryError", x, owners_log(pl, e) \o SubSeq(resolve_pairs(dt, pl, 1).log, 1, 1))
    ELSE LET r == resolve_and_edit(pl, dt, x, fault)
         IN Return(r.res, r.xc, owners_log(pl, e) \o r.log)

disconnect_patch_list(t, pl, e, up, bookings, dt, x, fault) ==
    IF ~valid_patch_list(t, pl) THEN Return("ValidationError", x, <<>>)
    ELSE IF verify(pl, e, up, bookings).res = "RegistryError"
    THEN Return("RegistryError", x, owners_log(pl, e))
    ELSE IF ~check_patch_owners(pl, e, bookings)
    THEN Return("AuthorizationError", x, owners_log(pl, e))
    ELSE IF ~up
    THEN Return("RegistryError", x, owners_log(pl, e) \o SubSeq(resolve_ingresses(dt, pl, 1).log, 1, 1))
    ELSE LET r == resolve_ingresses(dt, pl, 1)
             entries == delete_entries(r.ingresses)
             ed == edit_config(x, entries, fault)
         IN IF r.err THEN Return("NotFoundError", x, owners_log(pl, e) \o r.log)
            ELSE Return(IF ed.ok THEN "ok" ELSE "EditError", ed.xc,
                        owners_log(pl, e) \o r.log \o << <<"edit_config", entries>> >>)

(***************************************************************************)
(* src/polatis/polatis_new_old.py: Polatis.apply_patch_list reads the      *)
(* power of every pair back after the edit; get_port_power raises KeyError *)
(* for a port without a reading.  Each reading is a <get> sent through     *)
(* _subtree_get, which has no handler: the switch refusing the get ends    *)
(* the read-back with its rpc-error.  refused is the number of the get the *)
(* switch refuses, 0 when it answers them all.                             *)
(***************************************************************************)
get_port_power(pw, port) == pw[port]

RECURSIVE read_back(_, _, _)
read_back(pw, ports, refused) ==
    IF ports = <<>> THEN [res |-> "ok", log |-> <<>>]
    ELSE LET l == << <<"get_power", Head(ports)>> >>
         IN IF refused = 1 THEN [res |-> "RPCError", log |-> l]
            ELSE IF get_port_power(pw, Head(ports)) = None THEN [res |-> "KeyError", log |-> l]
            ELSE LET rest == read_back(pw, Tail(ports),
                                       IF refused = 0 THEN 0 ELSE refused - 1)
                 IN [res |-> rest.res, log |-> l \o rest.log]

\* Lines 786-816: what apply_patch_list does once the verifier has admitted
\* the patch list, up to time.sleep(1) of line 817: resolve, one edit.
\* "sleeping" is the call in that wait, the ports to read back with it.
old_resolve_and_edit(pl, dt, x, fault) ==
    LET r == resolve_pairs(dt, pl, 1)
        entries == create_entries(r.pairs)
        ed == edit_config(x, entries, fault)
        sent == r.log \o << <<"edit_config", entries>> >>
    IN IF r.err THEN Return("NotFoundError", x, r.log)
       ELSE IF ~ed.ok THEN Return("EditError", ed.xc, sent)
       ELSE ReturnInfo("sleeping", ed.xc, sent, Flatten(r.pairs))

\* Lines 765-816: apply_patch_list up to the wait.
old_apply_patch_list(t, pl, e, up, bookings, dt, x, fault) ==
    IF ~valid_patch_list(t, pl) THEN Return("ValidationError", x, <<>>)
    ELSE IF verify(pl, e, up, bookings).res = "RegistryError"
    THEN Return("RegistryError", x, owners_log(pl, e))
    ELSE IF ~check_patch_owners(pl, e, bookings)
    THEN Return("AuthorizationError", x, owners_log(pl, e))
    ELSE IF ~up
    THEN Return("RegistryError", x, owners_log(pl, e) \o SubSeq(resolve_pairs(dt, pl, 1).log, 1, 1))
    ELSE LET r == old_resolve_and_edit(pl, dt, x, fault)
         IN ReturnInfo(r.res, r.xc, owners_log(pl, e) \o r.log, r.info)

\* Lines 842-878: disconnect_patch_list up to time.sleep(1) of line 879,
\* after which the call only closes its registry connection.
old_disconnect_patch_list(t, pl, e, up, bookings, dt, x, fault) ==
    IF ~valid_patch_list(t, pl) THEN Return("ValidationError", x, <<>>)
    ELSE IF verify(pl, e, up, bookings).res = "RegistryError"
    THEN Return("RegistryError", x, owners_log(pl, e))
    ELSE IF ~check_patch_owners(pl, e, bookings)
    THEN Return("AuthorizationError", x, owners_log(pl, e))
    ELSE IF ~up
    THEN Return("RegistryError", x, owners_log(pl, e) \o SubSeq(resolve_ingresses(dt, pl, 1).log, 1, 1))
    ELSE LET r == resolve_ingresses(dt, pl, 1)
             entries == delete_entries(r.ingresses)
             ed == edit_config(x, entries, fault)
         IN IF r.err THEN Return("NotFoundError", x, owners_log(pl, e) \o r.log)
            ELSE Return(IF ed.ok THEN "sleeping" ELSE "EditError", ed.xc,
                        owners_log(pl, e) \o r.log \o << <<"edit_config", entries>> >>)

(***************************************************************************)
(* src/polatis.py: the telnet class.  apply_patch_list checks and connects *)
(* pair by pair; get_power answers -99.99 when the switch gives no reading.*)
(***************************************************************************)
DefaultMaxInpower == 2000
NoReadingPower == -9999

get_power(pw, port) == IF pw[port] = None THEN NoReadingPower ELSE Val(pw[port])

max_inpower_val(max_inpower) ==
    IF TruthyNum(max_inpower) THEN Val(max_inpower) ELSE DefaultMaxInpower

\* A comparison that also refuses a power equal to the limit.
exceeds_or_equal(inpower, limit) == inpower >= limit

\* Line 201: if inpower > max_inpower_val.
exceeds(inpower, limit) == inpower > limit

\* Lines 176-213: one turn of the loop up to time.sleep(1) of line 214: the
\* lookups, the reading of the ingress, the limit test and the ENT-PATCH.
\* "sleeping" is the call in that wait, the turn's variables with it.
telnet_connect(pair, pn, pw, x) ==
    LET input_comp == pair[1]
        output_comp == pair[2]
        l1 == << <<"lookup", "Out_Port", input_comp>> >>
        l2 == << <<"lookup", "In_Port", output_comp>> >>
        l3 == << <<"lookup", "Max_Inpower", input_comp>> >>
    IN IF input_comp \notin DOMAIN pn THEN Return("TypeError", x, l1)
       ELSE IF output_comp \notin DOMAIN pn THEN Return("TypeError", x, l1 \o l2)
       ELSE LET inp == pn[input_comp].Out_Port
                outp == pn[output_comp].In_Port
                inpower == get_power(pw, inp)
                limit == max_inpower_val(pn[input_comp].Max_Inpower)
                l4 == << <<"get_power", inp>> >>
            IN IF exceeds(inpower, limit)
               THEN ReturnInfo("SafetyLimitError", x, l1 \o l2 \o l3 \o l4,
                               <<inpower, limit>>)
               ELSE ReturnInfo("sleeping", Connect(x, inp, outp),
                               l1 \o l2 \o l3 \o l4 \o << <<"conn", inp, outp>> >>,
                               <<input_comp, inp, inpower, output_comp, outp, limit>>)

\* Lines 215-225: after the wait, the reading of the egress and the print,
\* with the variables the turn set before it.
telnet_measure(locals, pw) ==
    << <<"get_power", locals[5]>>,
       <<"print", locals[1], locals[2], locals[3], locals[4], locals[5],
         get_power(pw, locals[5]), locals[6]>> >>

\* The loop from the end of the wait of turn i to the next wait or to the
\* end of the call.
telnet_patch_loop(pl, i, locals, pn, pw, x) ==
    IF i = Len(pl) THEN Return("ok", x, telnet_measure(locals, pw))
    ELSE LET c == telnet_connect(pl[i + 1], pn, pw, x)
         IN ReturnInfo(c.res, c.xc, telnet_measure(locals, pw) \o c.log, c.info)

\* Lines 157-213: apply_patch_list up to the first wait.
telnet_apply_patch_list(t, pl, e, up, pn, pw, x) ==
    IF ~valid_patch_list(t, pl) THEN Return("ValidationError", x, <<>>)
    ELSE IF ~up THEN Return("RegistryError", x, telnet_verify(pl, e, up, pn).log)
    ELSE IF ~telnet_check_patch_owners(pl, e, pn)
    THEN Return("AuthorizationError", x, telnet_owners_log(pl))
    ELSE LET r == telnet_connect(pl[1], pn, pw, x)
         IN ReturnInfo(r.res, r.xc, telnet_owners_log(pl) \o r.log, r.info)

(***************************************************************************)
(* release_ports: UPDATE ports_new SET Owner = username WHERE Name = name  *)
(* for every name of the patch list but the sentinel.                      *)
(***************************************************************************)
\* An update without the WHERE clause: every row gets the new owner.
release_every_row(pl, username, pn) ==
    [n \in DOMAIN pn |-> [pn[n] EXCEPT !.Owner = username]]

release_ports(pl, username, pn) ==
    [n \in DOMAIN pn |->
        IF n \in all_devices(pl) THEN [pn[n] EXCEPT !.Owner = username] ELSE pn[n]]

RECURSIVE release_updates(_)
release_updates(names) ==
    IF names = <<>> THEN <<>>
    ELSE (IF Head(names) = NULL THEN <<>>
          ELSE << <<"update", "ports_new.Owner", Head(names)>> >>)
         \o release_updates(Tail(names))

\* The credentials release_ports opens the registry with.
release_credentials(i) == IF i = "netconf" THEN "ordinary" ELSE "admin"

release_log(i, pl) == << <<"connect", release_credentials(i)>> >> \o release_updates(Flatten(pl))

ReleaseUsers == { <<"alice">>, <<"bob">> }

(***************************************************************************)
(* The NETCONF session of one instance (polatis/polatis.py 109-150,        *)
(* polatis_new_old.py 102-155).  mgr is self._mgr, the manager of the      *)
(* session with the number it holds; live are the sessions the instance    *)
(* opened that are still connected (a manager's `connected`); opened       *)
(* counts the manager.connect calls that succeeded.  close_session ends    *)
(* the transport whether or not its RPC raises.                            *)
(***************************************************************************)
MaxSessions == 3

NoSession == [mgr |-> None, live |-> {}, opened |-> 0]

\* self._mgr is not None and self._mgr.connected
connected(n) == n.mgr # None /\ Val(n.mgr) \in n.live

\* A connect without the guard of lines 111-112.
connect_always(n, ok) ==
    IF ok
    THEN [nc |-> [mgr |-> Some(n.opened + 1), live |-> n.live \cup {n.opened + 1},
                  opened |-> n.opened + 1],
          res |-> "ok", log |-> << <<"manager.connect", n.opened + 1>> >>]
    ELSE [nc |-> n, res |-> "ConnectError", log |-> <<>>]

\* connect(): nothing when connected; else manager.connect, which gives a
\* new session or raises and leaves self._mgr as it was.
connect(n, ok) ==
    IF connected(n) THEN [nc |-> n, res |-> "ok", log |-> <<>>]
    ELSE IF ok
    THEN [nc |-> [mgr |-> Some(n.opened + 1), live |-> n.live \cup {n.opened + 1},
                  opened |-> n.opened + 1],
          res |-> "ok", log |-> << <<"manager.connect", n.opened + 1>> >>]
    ELSE [nc |-> n, res |-> "ConnectError", log |-> <<>>]

\* close(): close_session when connected, its error logged and dropped;
\* self._mgr = None in every case.
close(n, raises) ==
    IF connected(n)
    THEN [nc |-> [n EXCEPT !.mgr = None, !.live = @ \ {Val(n.mgr)}],
          res |-> "ok",
          log |-> << <<"close_session", Val(n.mgr)>> >>
                  \o (IF raises THEN << <<"logger.exception">> >> ELSE <<>>)]
    ELSE [nc |-> [n EXCEPT !.mgr = None], res |-> "ok", log |-> <<>>]

\* self.mgr.get / edit_config / dispatch: the mgr property connects when
\* there is no connected manager, and the request goes out on self._mgr.
\* A request the switch refuses raises to the caller, the session staying
\* open: _edit and _rpc log the error and raise it again, _subtree_get has
\* no handler.
operation(n, ok, refused) ==
    LET c == IF connected(n) THEN [nc |-> n, res |-> "ok", log |-> <<>>] ELSE connect(n, ok)
    IN IF c.res # "ok" THEN c
       ELSE [nc |-> c.nc, res |-> IF refused THEN "RPCError" ELSE "ok",
             log |-> c.log \o << <<"send", Val(c.nc.mgr)>> >>]

\* The positions in a call's log where a session was opened.
NewSessions(log) == {i \in DOMAIN log : log[i][1] = "manager.connect"}

\* The positions of the edits in a call's log.
edits(log) == {i \in DOMAIN log : log[i][1] = "edit_config"}

\* Whether manager.connect succeeds when call r on client n needs a
\* session: it is called only for an edit on a client not connected.
Reachable(n, r) == IF edits(r.log) = {} \/ connected(n) THEN {TRUE} ELSE BOOLEAN

\* A call r of a NETCONF class made on client n, the switch as x before it.
\* When the call gets as far as self._edit, the mgr property opens a session
\* if none is connected, before the edit goes out; manager.connect raising
\* ends the call there, nothing sent.  The session stays open after the call.
edit_through(n, ok, r, x) ==
    LET first == CHOOSE i \in edits(r.log) : \A j \in edits(r.log) : i <= j
    IN IF edits(r.log) = {} \/ connected(n)
       THEN [res |-> r.res, xc |-> r.xc, log |-> r.log, info |-> r.info, nc |-> n]
       ELSE IF ok
       THEN [res |-> r.res, xc |-> r.xc,
             log |-> SubSeq(r.log, 1, first - 1) \o connect(n, TRUE).log
                     \o SubSeq(r.log, first, Len(r.log)),
             info |-> r.info, nc |-> connect(n, TRUE).nc]
       ELSE [res |-> "ConnectError", xc |-> x, log |-> SubSeq(r.log, 1, first - 1),
             info |-> <<>>, nc |-> n]

\* polatis_new_old.py 819-831: the read-back after the wait, on client n
\* with the switch as x.  get_port_power goes through the mgr property, which
\* opens a session when the one of the edit is gone.
old_read_back(n, ok, pw, ports, refused, x) ==
    LET c == connect(n, ok)
        rb == read_back(pw, ports, refused)
    IN IF ports = <<>>
       THEN [res |-> "ok", xc |-> x, log |-> <<>>, info |-> <<>>, nc |-> n]
       ELSE IF c.res # "ok"
       THEN [res |-> "ConnectError", xc |-> x, log |-> <<>>, info |-> <<>>, nc |-> n]
       ELSE [res |-> rb.res, xc |-> x,
             log |-> c.log \o rb.log, info |-> <<>>, nc |-> c.nc]

(***************************************************************************)
(* The state machine: one caller, one call at a time.                      *)
(***************************************************************************)
NoCall == [op |-> "none", res |-> "none", log |-> <<>>, info |-> <<>>,
           xc0 |-> OtherXC, fault |-> FALSE]

Called(op, r, fault) ==
    [op |-> op, res |-> r.res, log |-> r.log, info |-> r.info, xc0 |-> xc,
     fault |-> fault]

\* How many times in a run something else acts on the switch while a call
\* sleeps.
MaxHooks == 1

\* No call sleeps.  hooks is how many more times the switch and its other
\* clients act on the sleeping calls of the run: a session ended or a
\* cross-connect deleted during a wait, a get refused after it.
NoWait == [op |-> "none", i |-> 0, log |-> <<>>, xc0 |-> OtherXC, fault |-> FALSE,
           locals |-> <<>>, hooks |-> 0]

Waiting == wait.i > 0

\* Two callers in two processes, each with its own environment.
Callers == {"alice", "bob"}

EnvOf(u) ==
    IF u = "alice" THEN [SUDO_USER |-> None, USER |-> Some("alice")]
    ELSE [SUDO_USER |-> Some("bob"), USER |-> Some("root")]

\* The second caller's patch lists.
SecondRequests == [1..1 -> Pairs]

\* A caller that has not called yet.
Idle == [pc |-> "start", i |-> 1, res |-> "none", touched |-> {}, owned |-> TRUE,
         nc |-> [mgr |-> None, live |-> {}, opened |-> 0], locals |-> <<>>]

NoRace == [pl2 |-> <<>>, releases |-> 0, c |-> [u \in Callers |-> Idle]]

inputs == <<impl, env, active_bookings, device_table, power, patch_list, race, arg_type,
            registry_up>>

static == <<inputs, nc, wait>>

\* What a run is given: the class, the caller's environment, the argument,
\* the registry's tables, the switch's readings and cross-connects.
InputsFor(envs) ==
    /\ impl \in Impls
    /\ env \in envs
    /\ patch_list \in Requests
    /\ arg_type \in ArgTypes
    /\ arg_type = "tuple" => Len(patch_list) <= 1
    /\ \E present \in Presents :
         /\ device_table = Restrict(DeviceRows, present)
         /\ \/ /\ impl = "netconf"
               /\ active_bookings \in BookingTables
               /\ ports_new = PortRows(Restrict("A" :> <<>> @@ "B" :> <<"bob">>, present))
               /\ power \in {[p \in Ports |-> Some(500)], [p \in Ports |-> Some(1500)]}
            \/ /\ impl = "netconf_old"
               /\ active_bookings \in BookingTables
               /\ ports_new = PortRows(Restrict("A" :> <<>> @@ "B" :> <<"bob">>, present))
               /\ power \in {[p \in Ports |-> Some(500)],
                             [p \in Ports |-> IF p = 406 THEN None ELSE Some(500)]}
            \/ /\ impl = "telnet"
               /\ active_bookings = {}
               /\ \E owners \in OwnerTables : ports_new = PortRows(Restrict(owners, present))
               /\ power \in PowerTables
    /\ xc = OtherXC
    /\ last = NoCall
    /\ prev = NoCall
    /\ race = NoRace
    /\ nc = NoSession

Inputs == InputsFor(Envs)

\* The registry answers throughout the run; the switch answers every get,
\* keeps the sessions open and has no other client.
InitAlone == Inputs /\ registry_up = TRUE /\ wait = NoWait

\* The caller alice passing a list, every device in the directory and no
\* device booked twice, on a switch that may end a session or refuse a get
\* and that other clients use as well.
Init ==
    /\ Inputs
    /\ registry_up = TRUE
    /\ wait = [NoWait EXCEPT !.hooks = MaxHooks]
    /\ env = EnvOf("alice")
    /\ arg_type = "list"
    /\ device_table = DeviceRows
    /\ \A d \in Names : Cardinality({row \in active_bookings : row[1] = d}) <= 1

Finish(op, r, fault) ==
    /\ xc' = r.xc
    /\ last' = Called(op, r, fault)
    /\ prev' = last

\* The first stretch of a call: it ends the call, or leaves it in its wait.
Begin(op, r, fault) ==
    /\ ~Waiting
    /\ IF r.res = "sleeping"
       THEN /\ xc' = r.xc
            /\ wait' = [op |-> op, i |-> 1, log |-> r.log, xc0 |-> xc, fault |-> fault,
                        locals |-> r.info, hooks |-> wait.hooks]
            /\ UNCHANGED <<last, prev>>
       ELSE /\ Finish(op, r, fault)
            /\ wait' = wait

\* The stretch after a wait: to the next wait, or to the end of the call.
Resume(op, r) ==
    /\ Waiting
    /\ wait.op = op
    /\ xc' = r.xc
    /\ IF r.res = "sleeping"
       THEN /\ wait' = [wait EXCEPT !.i = @ + 1, !.log = @ \o r.log, !.locals = r.info]
            /\ UNCHANGED <<last, prev>>
       ELSE /\ last' = [op |-> op, res |-> r.res, log |-> wait.log \o r.log,
                        info |-> r.info, xc0 |-> wait.xc0, fault |-> wait.fault]
            /\ prev' = last
            /\ wait' = [NoWait EXCEPT !.hooks = wait.hooks - IF r.res = "RPCError" THEN 1 ELSE 0]

\* Authorize: check_patch_owners called on its own.
Authorize ==
    /\ ~Waiting
    /\ impl \in {"netconf", "netconf_old"}
    /\ Finish("authorize",
              ReturnInfo(verify(patch_list, env, registry_up, active_bookings).res, xc,
                         verify(patch_list, env, registry_up, active_bookings).log,
                         verify(patch_list, env, registry_up, active_bookings).out), FALSE)
    /\ UNCHANGED <<static, ports_new>>

\* The verifier with the update of polatis.py 288-297 switched on: on
\* success it writes the caller as owner of every name of the patch list.
TelnetAuthorizeReserving ==
    /\ ~Waiting
    /\ impl = "telnet"
    /\ Finish("authorize",
              ReturnInfo(telnet_verify(patch_list, env, registry_up, ports_new).res, xc,
                         telnet_verify(patch_list, env, registry_up, ports_new).log,
                         telnet_verify(patch_list, env, registry_up, ports_new).out), FALSE)
    /\ ports_new' = IF telnet_verify(patch_list, env, registry_up, ports_new).res = "True"
                    THEN release_ports(patch_list, telnet_unix_user(env), ports_new)
                    ELSE ports_new
    /\ UNCHANGED static

TelnetAuthorize ==
    /\ ~Waiting
    /\ impl = "telnet"
    /\ Finish("authorize",
              ReturnInfo(telnet_verify(patch_list, env, registry_up, ports_new).res, xc,
                         telnet_verify(patch_list, env, registry_up, ports_new).log,
                         telnet_verify(patch_list, env, registry_up, ports_new).out), FALSE)
    /\ UNCHANGED <<static, ports_new>>

Apply ==
    /\ ~Waiting
    /\ impl = "netconf"
    /\ \E fault \in BOOLEAN :
         \E call \in {apply_patch_list(arg_type, patch_list, env, registry_up, active_bookings,
                         device_table, xc, fault)} :
           \E ok \in Reachable(nc, call) :
             \E r \in {edit_through(nc, ok, call, xc)} :
               nc' = r.nc /\ Finish("apply", r, fault)
    /\ UNCHANGED <<inputs, ports_new, wait>>

\* polatis_new_old.py 765-816: the call up to time.sleep(1) of line 817.
OldApply ==
    /\ impl = "netconf_old"
    /\ \E fault \in BOOLEAN :
         \E call \in {old_apply_patch_list(arg_type, patch_list, env, registry_up,
                         active_bookings, device_table, xc, fault)} :
           \E ok \in Reachable(nc, call) :
             \E r \in {edit_through(nc, ok, call, xc)} :
               nc' = r.nc /\ Begin("apply", r, fault)
    /\ UNCHANGED <<inputs, ports_new>>

\* polatis_new_old.py 819-836: the call from the end of the wait.
OldReadBack ==
    /\ impl = "netconf_old"
    /\ Waiting
    /\ \E ok \in IF connected(nc) THEN {TRUE} ELSE BOOLEAN,
          refused \in IF wait.hooks > 0 THEN 0..Len(wait.locals) ELSE {0} :
         \E r \in {old_read_back(nc, ok, power, wait.locals, refused, xc)} :
           nc' = r.nc /\ Resume("apply", r)
    /\ UNCHANGED <<inputs, ports_new>>

\* polatis.py 157-213: the call up to time.sleep(1) of the first turn.
TelnetApply ==
    /\ impl = "telnet"
    /\ Begin("apply", telnet_apply_patch_list(arg_type, patch_list, env, registry_up,
                                    ports_new, power, xc), FALSE)
    /\ UNCHANGED <<inputs, nc, ports_new>>

\* polatis.py 215-232: the call from the end of a turn's wait to the wait of
\* the next turn, or to its end.
TelnetPatchLoop ==
    /\ impl = "telnet"
    /\ Resume("apply", telnet_patch_loop(patch_list, wait.i, wait.locals, ports_new, power, xc))
    /\ UNCHANGED <<inputs, nc, ports_new>>

\* The ports a direct call names: those of the devices.
DirectIngress == {DeviceRows[d].Out_Port : d \in DOMAIN DeviceRows}
DirectEgress == {DeviceRows[d].In_Port : d \in DOMAIN DeviceRows}

\* While the call sleeps the switch ends its session.
WaitDrop ==
    /\ Waiting
    /\ wait.hooks > 0
    /\ connected(nc)
    /\ nc.opened < MaxSessions
    /\ nc' = [nc EXCEPT !.live = @ \ {Val(nc.mgr)}]
    /\ wait' = [wait EXCEPT !.hooks = @ - 1]
    /\ UNCHANGED <<inputs, ports_new, xc, last, prev>>

\* While the call sleeps another client of the switch deletes a
\* cross-connect.
OtherDelete ==
    /\ Waiting
    /\ wait.hooks > 0
    /\ \E ingress \in DOMAIN xc \cap DirectIngress : xc' = Disconnect(xc, ingress)
    /\ wait' = [wait EXCEPT !.hooks = @ - 1]
    /\ UNCHANGED <<inputs, nc, ports_new, last, prev>>

\* disconnect_devices(a, b) is this call with the one-pair list [(a, b)].
Teardown ==
    /\ ~Waiting
    /\ impl = "netconf"
    /\ \E fault \in BOOLEAN :
         \E call \in {disconnect_patch_list(arg_type, patch_list, env, registry_up,
                         active_bookings, device_table, xc, fault)} :
           \E ok \in Reachable(nc, call) :
             \E r \in {edit_through(nc, ok, call, xc)} :
               nc' = r.nc /\ Finish("teardown", r, fault)
    /\ UNCHANGED <<inputs, ports_new, wait>>

OldTeardown ==
    /\ ~Waiting
    /\ impl = "netconf_old"
    /\ \E fault \in BOOLEAN :
         \E call \in {old_disconnect_patch_list(arg_type, patch_list, env,
                         registry_up, active_bookings,
                         device_table, xc, fault)} :
           \E ok \in Reachable(nc, call) :
             \E r \in {edit_through(nc, ok, call, xc)} :
               nc' = r.nc /\ Begin("teardown", r, fault)
    /\ UNCHANGED <<inputs, ports_new>>

\* polatis_new_old.py 879-883: the wait over, disconnect_patch_list closes
\* its registry connection and returns.
OldTeardownReturn ==
    /\ impl = "netconf_old"
    /\ Resume("teardown", Return("ok", xc, <<>>))
    /\ UNCHANGED <<inputs, nc, ports_new>>

Release ==
    /\ \E username \in ReleaseUsers :
         IF registry_up
         THEN /\ ports_new' = release_ports(patch_list, username, ports_new)
              /\ Finish("release",
                        ReturnInfo("ok", xc, release_log(impl, patch_list), username), FALSE)
         ELSE /\ ports_new' = ports_new
              /\ Finish("release",
                        ReturnInfo("RegistryError", xc, SubSeq(release_log(impl, patch_list), 1, 1),
                                   username), FALSE)
    /\ UNCHANGED static

(***************************************************************************)
(* The device gate: src/ila.py ILA.__init__ and src/yokogawa.py            *)
(* YokogawaOSA.connect call check_patch_owners on the device's names       *)
(* before they open the connection to the device.                          *)
(***************************************************************************)
\* Two of the eleven names of the if/elif chain, and a name it does not have.
ILAHosts == "ila_1" :> "10.10.10.34" @@ "ila_2" :> "10.10.10.27"
ILANames == {"ila_1", "ila_2", "ila_0"}

\* f"{device}_fwd" and f"{device}_bck".
fwd(device) == CASE device = "ila_1" -> "ila_1_fwd" [] device = "ila_2" -> "ila_2_fwd"
                 [] OTHER -> "ila_0_fwd"
bck(device) == CASE device = "ila_1" -> "ila_1_bck" [] device = "ila_2" -> "ila_2_bck"
                 [] OTHER -> "ila_0_bck"

\* The bookings of the gated devices.
GateBookingTables ==
    { {},
      { <<"ila_1_fwd", Some("alice")>>, <<"ila_1_bck", Some("alice")>>,
        <<"Yoko_OSA", Some("bob")>> },
      { <<"ila_1_fwd", Some("alice")>>, <<"ila_1_bck", Some("bob")>>,
        <<"ila_2_fwd", Some("bob")>>,
        <<"Yoko_OSA", Some("alice")>>, <<"Yoko_OSA", Some("bob")>> } }

\* ILA.__init__: parse_args leaves the process when the script was started
\* without the required arguments; an unknown name is a ValueError; then the
\* ownership check, and only then manager.connect.
ila_init(device, args_ok, e, up, bookings, x) ==
    LET v == verify(<< <<fwd(device), bck(device)>> >>, e, up, bookings)
    IN IF ~args_ok THEN ReturnInfo("SystemExit", x, <<>>, device)
       ELSE IF device \notin DOMAIN ILAHosts THEN ReturnInfo("ValueError", x, <<>>, device)
       ELSE IF v.res = "RegistryError" THEN ReturnInfo("RegistryError", x, v.log, device)
       ELSE IF v.res = "False" THEN ReturnInfo("NotAuthorized", x, v.log, device)
       ELSE ReturnInfo("ok", x, v.log \o << <<"manager.connect", ILAHosts[device]>> >>, device)

\* A connect that opens the resource whatever the check said.
yokogawa_connect_unchecked(e, up, bookings, x) ==
    ReturnInfo("ok", x, << <<"open_resource", "Yoko_OSA">> >>, "Yoko_OSA")

\* YokogawaOSA.connect.
yokogawa_connect(e, up, bookings, x) ==
    LET v == verify(<< <<"Yoko_OSA", "Yoko_OSA">> >>, e, up, bookings)
    IN IF v.res = "RegistryError" THEN ReturnInfo("RegistryError", x, v.log, "Yoko_OSA")
       ELSE IF v.res = "False" THEN ReturnInfo("NotAuthorized", x, v.log, "Yoko_OSA")
       ELSE ReturnInfo("ok", x, v.log \o << <<"open_resource", "Yoko_OSA">> >>, "Yoko_OSA")

ILAInit ==
    /\ \E device \in ILANames, args_ok \in BOOLEAN :
         Finish("ila_init", ila_init(device, args_ok, env, registry_up, active_bookings, xc),
                FALSE)
    /\ UNCHANGED <<static, ports_new>>

YokogawaConnect ==
    /\ Finish("yokogawa_connect", yokogawa_connect(env, registry_up, active_bookings, xc), FALSE)
    /\ UNCHANGED <<static, ports_new>>

(***************************************************************************)
(* The session calls of one NETCONF instance.  A call's record carries the *)
(* client as it was before the call.                                       *)
(***************************************************************************)
SessionCall(op, r) ==
    /\ nc' = r.nc
    /\ Finish(op, ReturnInfo(r.res, xc, r.log, nc), FALSE)
    /\ UNCHANGED <<inputs, ports_new, wait>>

\* connect(), login(), __enter__.
NcConnect ==
    /\ nc.opened < MaxSessions
    /\ \E ok \in BOOLEAN : SessionCall("connect", connect(nc, ok))

\* close(), logout(), __exit__.
NcClose == \E raises \in BOOLEAN : SessionCall("close", close(nc, raises))

\* _subtree_get, _edit, _rpc.
NcOperation ==
    /\ nc.opened < MaxSessions
    /\ \E ok \in BOOLEAN, refused \in BOOLEAN :
         SessionCall("operation", operation(nc, ok, refused))

\* The switch ends a session of its own accord.
NcDrop ==
    /\ \E id \in nc.live : nc' = [nc EXCEPT !.live = @ \ {id}]
    /\ UNCHANGED <<inputs, ports_new, xc, last, prev, wait>>

\* A direct call of the public methods that create or delete
\* cross-connects: one edit, no owner check, no directory lookup.  The
\* methods taking a list return at once on an empty one, without touching
\* the session (polatis_new_old.py 343-346, 372-375).
DirectCall(op, entries) ==
    /\ nc.opened < MaxSessions
    /\ IF entries = <<>>
       THEN /\ nc' = nc
            /\ Finish(op, ReturnInfo("ok", xc, <<>>, nc), FALSE)
       ELSE \E fault \in BOOLEAN :
              \E ed \in {edit_config(xc, entries, fault)} :
                \E call \in {Return(IF ed.ok THEN "ok" ELSE "EditError", ed.xc,
                                    << <<"edit_config", entries>> >>)} :
                  \E ok \in Reachable(nc, call) :
                    \E r \in {edit_through(nc, ok, call, xc)} :
                      /\ nc' = r.nc
                      /\ Finish(op, ReturnInfo(r.res, r.xc, r.log, nc), fault)
    /\ UNCHANGED <<inputs, ports_new, wait>>

CreateCrossConnect ==
    \E ingress \in DirectIngress, egress \in DirectEgress :
        DirectCall("create_cross_connect", << <<"create", ingress, egress>> >>)

DeleteCrossConnect ==
    \E ingress \in DirectIngress :
        DirectCall("delete_cross_connect", << <<"delete", ingress>> >>)

\* The lists a direct call passes: the empty one, and the two devices
\* patched to each other.  A list of one entry is the call above.
DirectPairLists ==
    {<<>>, << <<DeviceRows["A"].Out_Port, DeviceRows["B"].In_Port>>,
              <<DeviceRows["B"].Out_Port, DeviceRows["A"].In_Port>> >>}

DirectIngressLists ==
    {<<>>, <<DeviceRows["A"].Out_Port, DeviceRows["B"].Out_Port>>}

\* polatis_new_old.py 337-364: create_cross_connects(pairs).
CreateCrossConnects ==
    /\ impl = "netconf_old"
    /\ \E pairs \in DirectPairLists :
         DirectCall("create_cross_connects", create_entries(pairs))

\* polatis_new_old.py 366-397: delete_cross_connects(ingresses).
DeleteCrossConnects ==
    /\ impl = "netconf_old"
    /\ \E ingresses \in DirectIngressLists :
         DirectCall("delete_cross_connects", delete_entries(ingresses))

NextNc ==
    \/ NcConnect
    \/ NcClose
    \/ NcOperation
    \/ NcDrop
    \/ CreateCrossConnect
    \/ DeleteCrossConnect
    \/ CreateCrossConnects
    \/ DeleteCrossConnects

\* Provisioning: Apply and Teardown through the class of the run.
Calls ==
    \/ Apply
    \/ OldApply
    \/ OldReadBack
    \/ TelnetApply
    \/ TelnetPatchLoop
    \/ Teardown
    \/ OldTeardown
    \/ OldTeardownReturn

\* The caller alone on the switch.
SpecAlone == InitAlone /\ [][Calls]_vars

\* Provisioning on a switch that ends sessions and serves other clients.
Next ==
    \/ Calls
    \/ WaitDrop
    \/ OtherDelete

Spec == Init /\ [][Next]_vars

\* Ownership: the verifier called on its own, and the administrator's release.
NextOwn ==
    \/ Authorize
    \/ TelnetAuthorize
    \/ Release

SpecOwn == InitAlone /\ [][NextOwn]_vars

(***************************************************************************)
(* The vocabulary of the properties.                                       *)
(***************************************************************************)
\* The acting user, as the verifier of the run's class reads it.
ActingUser == IF impl = "telnet" THEN telnet_unix_user(env) ELSE unix_user(env)

\* The users holding a booking of device d, in the registry table the
\* verifier of the run's class reads.
OwnerSet(d) ==
    IF impl = "telnet"
    THEN IF d \in DOMAIN ports_new
         THEN {ports_new[d].Owner[i] : i \in DOMAIN ports_new[d].Owner}
         ELSE {}
    ELSE {Val(r[2]) : r \in {q \in active_bookings :
                                q[1] = d /\ q[2] # None /\ Val(q[2]) # ""}}

BookedBySomeoneElse(d) ==
    /\ OwnerSet(d) # {}
    /\ \/ ~TruthyStr(ActingUser)
       \/ Val(ActingUser) \notin OwnerSet(d)

\* The positions of the switch writes in a call's log.
Writes(log) == {i \in DOMAIN log : log[i][1] \in {"edit_config", "conn"}}

\* The argument is a patch request: a list of pairs.
IsPatchRequest == arg_type = "list"

\* The call recorded in last is an op and no later call is at its
\* time.sleep(1): xc is the switch as that call left it.
Returned(op) == last.op = op /\ ~Waiting

\* The devices of the patch list, the sentinel left out.
Devices == {d \in Referenced(patch_list) : d # NULL}

(***************************************************************************)
(* C1.  If a device the patch list references is booked by someone else    *)
(* (it has owners and the acting user is not one of them), Apply returns   *)
(* the authorization error, makes no write to the switch, and the          *)
(* cross-connects are those before the call.                               *)
(***************************************************************************)
C1_BookedBySomeoneElseBlocksApply ==
    (Returned("apply") /\ IsPatchRequest /\ \E d \in Devices : BookedBySomeoneElse(d))
    => /\ last.res = "AuthorizationError"
       /\ Writes(last.log) = {}
       /\ xc = last.xc0

\* A two-pair list whose only conflict is the destination of the second pair.
C1_Witness ==
    /\ impl = "netconf"
    /\ last.op = "apply"
    /\ Len(patch_list) = 2
    /\ patch_list[1] = <<"B", "B">>
    /\ patch_list[2][1] = "B"
    /\ patch_list[2][2] = "A"
    /\ BookedBySomeoneElse("A")
    /\ ~BookedBySomeoneElse("B")
    /\ last.res = "AuthorizationError"

(***************************************************************************)
(* The power safety guard, as the design states it: the power measured on  *)
(* the pair's ingress (the source device's Out_Port) against the ceiling   *)
(* configured for the destination device, 20 dBm when none is configured.  *)
(***************************************************************************)
IngressOf(d) == DeviceRows[d].Out_Port
EgressOf(d) == DeviceRows[d].In_Port

Ceiling(d) ==
    IF ports_new[d].Max_Inpower # None THEN Val(ports_new[d].Max_Inpower)
    ELSE DefaultMaxInpower

\* Pair i resolves, and its measured ingress power is above the ceiling.
Exceeds(i) ==
    /\ patch_list[i][1] \in DOMAIN ports_new
    /\ patch_list[i][2] \in DOMAIN ports_new
    /\ power[IngressOf(patch_list[i][1])] # None
    /\ Val(power[IngressOf(patch_list[i][1])]) > Ceiling(patch_list[i][2])

\* The verifier of the run's class admits the patch list.
Admitted ==
    IF impl = "telnet" THEN telnet_check_patch_owners(patch_list, env, ports_new)
    ELSE check_patch_owners(patch_list, env, active_bookings)

Resolvable == \A d \in Referenced(patch_list) : d \in DOMAIN device_table

(***************************************************************************)
(* C2.  Apply of an admitted, resolvable patch list with a pair whose      *)
(* measured ingress power exceeds the destination's ceiling returns the    *)
(* safety-limit error with the measured power and the limit, and leaves    *)
(* the cross-connects as they were (A -> B, B's ceiling 10 dBm, 15 dBm     *)
(* measured on port 229).                                                  *)
(***************************************************************************)
C2_NoPatchAboveCeiling ==
    (/\ Returned("apply")
     /\ ~last.fault
     /\ IsPatchRequest
     /\ Admitted
     /\ Resolvable
     /\ \E i \in DOMAIN patch_list : Exceeds(i))
    => /\ last.res = "SafetyLimitError"
       /\ \E i \in DOMAIN patch_list :
            /\ Exceeds(i)
            /\ last.info = <<Val(power[IngressOf(patch_list[i][1])]),
                             Ceiling(patch_list[i][2])>>
       /\ xc = last.xc0

(***************************************************************************)
(* C3.  When Apply stops on the safety check of any pair, none of the      *)
(* pairs of the patch list has been connected: the cross-connects are      *)
(* those before the call.                                                  *)
(***************************************************************************)
C3_SafetyFailureAllOrNothing ==
    (Returned("apply") /\ last.res = "SafetyLimitError") => xc = last.xc0

(***************************************************************************)
(* C4.  A device name of the patch list without a row in the directory.    *)
(***************************************************************************)
Unresolvable == \E d \in Devices : d \notin DOMAIN device_table

\* C4 as stated: Apply of a patch list with an unresolvable device name
\* always ends in the not-found error, without a write.
C4_AlwaysNotFound ==
    (Returned("apply") /\ impl \in {"netconf", "netconf_old"} /\ IsPatchRequest
     /\ Unresolvable)
    => /\ last.res = "NotFoundError"
       /\ Writes(last.log) = {}
       /\ xc = last.xc0

\* C4 as amended: Apply of a patch list with an unresolvable device name
\* ends in the not-found error when the verifier admits the list and in
\* the authorization error when it does not; either way no write is made,
\* no lookup is answered with a default, and the cross-connects are those
\* before the call.
C4_UnresolvableNameAborts ==
    (Returned("apply") /\ impl \in {"netconf", "netconf_old"} /\ IsPatchRequest
     /\ Unresolvable)
    => /\ last.res = (IF Admitted THEN "NotFoundError" ELSE "AuthorizationError")
       /\ Writes(last.log) = {}
       /\ xc = last.xc0

\* The missing name is the destination of the second pair of an admitted list.
C4_Witness ==
    /\ impl = "netconf_old"
    /\ last.op = "apply"
    /\ Len(patch_list) = 2
    /\ patch_list[1] = <<"A", "A">>
    /\ patch_list[2] = <<"A", "B">>
    /\ "B" \notin DOMAIN device_table
    /\ Admitted
    /\ last.res = "NotFoundError"
    /\ xc = last.xc0

(***************************************************************************)
(* C7.  The verifier's answer against the bookings.                        *)
(***************************************************************************)
\* Every device of the patch list is unbooked, has no named owner, or has
\* user u among its owners.
AllFreeOrMine(u) == \A d \in Devices : OwnerSet(d) = {} \/ u \in OwnerSet(d)

\* No user name in which a booking could be held.
NoOwnerOf(d) == OwnerSet(d) = {}

\* C7 as stated: Authorize returns true exactly when every device other
\* than the sentinel has no booking, an empty owner set, or the acting user
\* among its owners.
C7_AuthorizeIffFreeOrMine ==
    (last.op = "authorize" /\ impl \in {"netconf", "netconf_old"})
    => (last.res = "True"
        <=> \A d \in Devices :
              NoOwnerOf(d) \/ (TruthyStr(ActingUser) /\ Val(ActingUser) \in OwnerSet(d)))

\* C7 as amended: when the environment names an acting user (SUDO_USER,
\* else USER), Authorize returns true exactly when every device other than
\* the sentinel has no booking, an empty owner set, or the acting user
\* among its owners; when the environment names no user, Authorize returns
\* false whatever the bookings are.
C7_AuthorizeIffUserAndFreeOrMine ==
    (last.op = "authorize" /\ impl \in {"netconf", "netconf_old"})
    => (last.res = "True"
        <=> (TruthyStr(ActingUser) /\ AllFreeOrMine(Val(ActingUser))))

\* A shared booking and a row held under the sentinel's name: bob asks for
\* (B, NULL), B is booked by bob, and "NULL" is booked by alice.
C7_Witness ==
    /\ impl = "netconf"
    /\ last.op = "authorize"
    /\ patch_list = << <<"B", NULL>> >>
    /\ ActingUser = Some("bob")
    /\ OwnerSet("B") = {"bob"}
    /\ OwnerSet(NULL) = {"alice"}
    /\ last.res = "True"

(***************************************************************************)
(* C8.  After Release of the patch list's devices to user w, Authorize of  *)
(* the same devices by w returns true.                                     *)
(***************************************************************************)
C8_ReleaseThenAuthorize ==
    (/\ prev.op = "release"
     /\ last.op = "authorize"
     /\ ActingUser = prev.info)
    => last.res = "True"

(***************************************************************************)
(* C9.  A second Teardown of the same patch list, after a first one that   *)
(* succeeded, succeeds as well and leaves the cross-connects as the first  *)
(* left them (the switch itself accepting the rpc).                        *)
(***************************************************************************)
C9_TeardownTwice ==
    (/\ prev.op = "teardown"
     /\ prev.res = "ok"
     /\ Returned("teardown")
     /\ ~last.fault)
    => /\ last.res = "ok"
       /\ xc = last.xc0

(***************************************************************************)
(* C10.  After a successful Apply of a one-pair list (s, d) the            *)
(* cross-connects read back contain (ingress of s, egress of d); after a   *)
(* successful Teardown of the list that follows it, no cross-connect has   *)
(* that ingress, and the cross-connects on every other ingress are those   *)
(* from before the Apply.                                                  *)
(***************************************************************************)
OnePair == Len(patch_list) = 1 /\ patch_list[1][1] # NULL /\ patch_list[1][2] # NULL

OnOtherIngress(pairs, i) == {p \in pairs : p[1] # i}

C10_RoundTrip ==
    /\ (OnePair /\ Returned("apply") /\ last.res = "ok")
       => /\ <<IngressOf(patch_list[1][1]), EgressOf(patch_list[1][2])>>
               \in get_cross_connects(xc)
          /\ OnOtherIngress(get_cross_connects(xc), IngressOf(patch_list[1][1]))
               = OnOtherIngress(get_cross_connects(last.xc0), IngressOf(patch_list[1][1]))
    /\ (OnePair /\ prev.op = "apply" /\ prev.res = "ok"
               /\ Returned("teardown") /\ last.res = "ok")
       => /\ \A p \in get_cross_connects(xc) : p[1] # IngressOf(patch_list[1][1])
          /\ OnOtherIngress(get_cross_connects(xc), IngressOf(patch_list[1][1]))
               = OnOtherIngress(get_cross_connects(prev.xc0), IngressOf(patch_list[1][1]))

\* Apply of (A, B) made 229 -> 406, and the Teardown after it removed it.
C10_Witness ==
    /\ impl = "netconf"
    /\ patch_list = << <<"A", "B">> >>
    /\ prev.op = "apply"
    /\ prev.res = "ok"
    /\ <<229, 406>> \in get_cross_connects(last.xc0)
    /\ last.op = "teardown"
    /\ last.res = "ok"
    /\ get_cross_connects(xc) = {<<17, 18>>}

(***************************************************************************)
(* Two callers at once.  Each Apply is two or more steps as the code makes *)
(* them: the verifier's registry query, then the switch write (one         *)
(* edit-config in the NETCONF classes, one ENT-PATCH per pair in the       *)
(* telnet class).  No lock is taken in between.  The administrator's       *)
(* release_ports may run at any point.                                     *)
(***************************************************************************)
MaxReleases == 1

RequestOf(u) == IF u = "alice" THEN patch_list ELSE race.pl2

\* Every device of u's patch list is unbooked or booked (at least in
\* part) by u, in the registry as it is now.
OwnedNow(u) ==
    \A d \in all_devices(RequestOf(u)) : OwnerSet(d) = {} \/ u \in OwnerSet(d)

\* The ports a call's switch writes name.
WritePorts(log) ==
    UNION { IF log[i][1] = "conn" THEN {log[i][2], log[i][3]}
            ELSE UNION {{log[i][2][k][2], log[i][2][k][3]} : k \in DOMAIN log[i][2]}
            : i \in Writes(log) }

InitRace ==
    /\ impl \in Impls
    /\ env = EnvOf("alice")
    /\ patch_list \in Requests
    /\ arg_type = "list"
    /\ registry_up = TRUE
    /\ device_table = DeviceRows
    /\ \/ /\ impl \in {"netconf", "netconf_old"}
          /\ active_bookings \in BookingTables
          /\ ports_new = PortRows("A" :> <<>> @@ "B" :> <<"bob">>)
       \/ /\ impl = "telnet"
          /\ active_bookings = {}
          /\ \E owners \in OwnerTables : ports_new = PortRows(owners)
    /\ power = [p \in Ports |-> Some(500)]
    /\ xc = OtherXC
    /\ last = NoCall
    /\ prev = NoCall
    /\ \E pl2 \in SecondRequests : race = [NoRace EXCEPT !.pl2 = pl2]
    /\ nc = NoSession
    /\ wait = NoWait

\* The caller's step from where it is to pc, with what the step wrote.
Step(u, pc, i, r) ==
    /\ xc' = r.xc
    /\ race' = [race EXCEPT !.c[u] =
                  [pc |-> pc, i |-> i, res |-> r.res,
                   touched |-> @.touched \cup WritePorts(r.log),
                   owned |-> @.owned /\ (Writes(r.log) = {} \/ OwnedNow(u)),
                   nc |-> IF impl # "telnet" /\ Writes(r.log) # {}
                          THEN connect(@.nc, TRUE).nc ELSE @.nc,
                   locals |-> IF pc = "sleeping" THEN r.info ELSE <<>>]]

\* polatis/polatis.py 652-658, polatis_new_old.py 777-784: validation and
\* the verifier.
RaceCheck(u) ==
    /\ impl \in {"netconf", "netconf_old"}
    /\ race.c[u].pc = "start"
    /\ IF RequestOf(u) = <<>> THEN Step(u, "done", 1, Return("ValidationError", xc, <<>>))
       ELSE IF ~check_patch_owners(RequestOf(u), EnvOf(u), active_bookings)
       THEN Step(u, "done", 1, Return("AuthorizationError", xc, <<>>))
       ELSE Step(u, "admitted", 1, Return("none", xc, <<>>))
    /\ UNCHANGED <<impl, env, active_bookings, device_table, ports_new, power,
                   patch_list, last, prev, arg_type, registry_up, nc, wait>>

\* polatis/polatis.py 660-674, polatis_new_old.py 786-836: resolution and
\* the edit.
RaceEdit(u) ==
    /\ impl \in {"netconf", "netconf_old"}
    /\ race.c[u].pc = "admitted"
    /\ LET r == IF impl = "netconf"
                THEN resolve_and_edit(RequestOf(u), device_table, xc, FALSE)
                ELSE old_resolve_and_edit(RequestOf(u), device_table, xc, FALSE)
       IN IF r.res = "sleeping"
          THEN Step(u, "sleeping", 1, [r EXCEPT !.res = "none"])
          ELSE Step(u, "done", 1, r)
    /\ UNCHANGED <<impl, env, active_bookings, device_table, ports_new, power,
                   patch_list, last, prev, arg_type, registry_up, nc, wait>>

\* polatis_new_old.py 817-831: after time.sleep(1), the read-back of the
\* power of every port of the request.
RaceReadBack(u) ==
    /\ impl = "netconf_old"
    /\ race.c[u].pc = "sleeping"
    /\ \E refused \in 0..Len(race.c[u].locals) :
         \E rb \in {read_back(power, race.c[u].locals, refused)} :
           Step(u, "done", 1, Return(rb.res, xc, rb.log))
    /\ UNCHANGED <<impl, env, active_bookings, device_table, ports_new, power,
                   patch_list, last, prev, arg_type, registry_up, nc, wait>>

\* polatis.py 172-173: the telnet class's verifier.
TelnetRaceCheck(u) ==
    /\ impl = "telnet"
    /\ race.c[u].pc = "start"
    /\ IF RequestOf(u) = <<>> THEN Step(u, "done", 1, Return("ValidationError", xc, <<>>))
       ELSE IF ~telnet_check_patch_owners(RequestOf(u), EnvOf(u), ports_new)
       THEN Step(u, "done", 1, Return("AuthorizationError", xc, <<>>))
       ELSE Step(u, "admitted", 1, Return("none", xc, <<>>))
    /\ UNCHANGED <<impl, env, active_bookings, device_table, ports_new, power,
                   patch_list, last, prev, arg_type, registry_up, nc, wait>>

\* polatis.py 176-213: turn i of the loop up to its wait.
TelnetRaceConn(u) ==
    /\ impl = "telnet"
    /\ race.c[u].pc = "admitted"
    /\ LET i == race.c[u].i
           r == telnet_connect(RequestOf(u)[i], ports_new, power, xc)
       IN IF r.res = "sleeping"
          THEN Step(u, "sleeping", i, [r EXCEPT !.res = "none"])
          ELSE Step(u, "done", i, r)
    /\ UNCHANGED <<impl, env, active_bookings, device_table, ports_new, power,
                   patch_list, last, prev, arg_type, registry_up, nc, wait>>

\* polatis.py 215-225: after the wait of turn i, the reading of the egress
\* and the print; then the next turn, or the end of the call.
TelnetRaceMeasure(u) ==
    /\ impl = "telnet"
    /\ race.c[u].pc = "sleeping"
    /\ LET i == race.c[u].i
           log == telnet_measure(race.c[u].locals, power)
       IN IF i < Len(RequestOf(u))
          THEN Step(u, "admitted", i + 1, Return("none", xc, log))
          ELSE Step(u, "done", i, Return("ok", xc, log))
    /\ UNCHANGED <<impl, env, active_bookings, device_table, ports_new, power,
                   patch_list, last, prev, arg_type, registry_up, nc, wait>>

\* The administrator hands the devices of alice's patch list to a user.
RaceRelease ==
    /\ race.releases < MaxReleases
    /\ \E username \in ReleaseUsers :
         ports_new' = release_ports(patch_list, username, ports_new)
    /\ race' = [race EXCEPT !.releases = @ + 1]
    /\ UNCHANGED <<impl, env, active_bookings, device_table, power, patch_list, xc,
                   last, prev, arg_type, registry_up, nc, wait>>

\* Two Apply calls, interleaved.
NextTwo ==
    \/ \E u \in Callers : RaceCheck(u)
    \/ \E u \in Callers : RaceEdit(u)
    \/ \E u \in Callers : RaceReadBack(u)
    \/ \E u \in Callers : TelnetRaceCheck(u)
    \/ \E u \in Callers : TelnetRaceConn(u)
    \/ \E u \in Callers : TelnetRaceMeasure(u)

SpecTwo == InitRace /\ [][NextTwo]_vars

\* Two Apply calls and the administrator's releases, interleaved.
NextRace ==
    \/ NextTwo
    \/ RaceRelease

SpecRace == InitRace /\ [][NextRace]_vars

(***************************************************************************)
(* C5.  Whenever a caller's Apply sends a write to the switch, every       *)
(* device of its patch list is at that moment unbooked or booked (at least *)
(* in part) by the caller, whatever releases run beside it.                *)
(***************************************************************************)
C5_OwnedWhenEditSent == \A u \in Callers : race.c[u].owned

(***************************************************************************)
(* C6.  When the Apply calls of two users have both been admitted and have *)
(* both written to a port of a device d, d has no booking or is booked by  *)
(* both of them.                                                           *)
(***************************************************************************)
PortsOf(d) == {DeviceRows[d].In_Port, DeviceRows[d].Out_Port}

Touched(u, d) == race.c[u].touched \cap PortsOf(d) # {}

C6_SharedDeviceSharedBooking ==
    \A d \in DOMAIN DeviceRows :
        (Touched("alice", d) /\ Touched("bob", d))
        => (OwnerSet(d) = {} \/ Callers \subseteq OwnerSet(d))

\* Both calls are through, both wrote to B's ingress side, and B is booked
\* by alice and by bob.
C6_Witness ==
    /\ impl = "netconf"
    /\ patch_list = << <<"A", "B">>, <<"B", "A">> >>
    /\ race.pl2 = << <<"B", "B">> >>
    /\ race.c["alice"].pc = "done"
    /\ race.c["bob"].pc = "done"
    /\ race.c["alice"].res = "ok"
    /\ race.c["bob"].res = "ok"
    /\ Touched("alice", "B")
    /\ Touched("bob", "B")
    /\ OwnerSet("B") = Callers

(***************************************************************************)
(* C11.  Inside Apply the ownership check comes first, and every lookup of *)
(* every pair comes before the first write to the switch: no write for one *)
(* pair is sent while a later pair is still to be resolved.                *)
(***************************************************************************)
Lookups(log) == {i \in DOMAIN log : log[i][1] = "lookup"}

C11_ResolveAllBeforeFirstWrite ==
    (last.op = "apply" /\ last.log # <<>>)
    => /\ last.log[1][1] = "check_patch_owners"
       /\ \A w \in Writes(last.log) : \A k \in Lookups(last.log) : k < w

(***************************************************************************)
(* C12.  An Apply of the NETCONF classes that gets past validation,        *)
(* ownership check and resolution, and has a session to send on, sends     *)
(* exactly one edit-config, with one pair entry per pair of the patch list *)
(* in the list's order; when that edit fails the call ends in the edit's   *)
(* error, nothing is sent again, and the cross-connects are those before   *)
(* the call.  When the session for the edit cannot be opened the call ends *)
(* in that error with nothing sent.  No call sends more than one edit,     *)
(* also when the switch ends the session while the call sleeps and the     *)
(* read-back opens another.                                                *)
(***************************************************************************)
\* The call ended because no session could be opened for its edit.
NoSessionForEdit == last.res = "ConnectError" /\ Writes(last.log) = {}

ExpectedCreates ==
    [i \in DOMAIN patch_list |->
        <<"create", IngressOf(patch_list[i][1]), EgressOf(patch_list[i][2])>>]

C12_OneEditNoRetry ==
    (Returned("apply") /\ impl \in {"netconf", "netconf_old"})
    => /\ (/\ valid_patch_list(arg_type, patch_list)
           /\ Admitted
           /\ Resolvable
           /\ ~NoSessionForEdit)
          => /\ Cardinality(Writes(last.log)) = 1
             /\ \A w \in Writes(last.log) :
                  last.log[w] = <<"edit_config", ExpectedCreates>>
             /\ last.fault => (last.res = "EditError" /\ xc = last.xc0)
       /\ NoSessionForEdit
          => /\ NewSessions(last.log) = {}
             /\ xc = last.xc0
       /\ Cardinality(Writes(last.log)) <= 1

\* A two-pair list whose edit the switch refuses.
C12_Witness ==
    /\ impl = "netconf"
    /\ last.op = "apply"
    /\ patch_list = << <<"A", "B">>, <<"B", "A">> >>
    /\ last.fault
    /\ last.res = "EditError"
    /\ Cardinality(Writes(last.log)) = 1
    /\ last.log[Len(last.log)] = <<"edit_config", << <<"create", 229, 406>>,
                                                     <<"create", 405, 230>> >> >>

(***************************************************************************)
(* C13.  Apply and Teardown skip the sentinel: they make no directory      *)
(* lookup for "NULL", and a patch list whose other names all resolve is    *)
(* not refused as not found because of it.                                 *)
(***************************************************************************)
C13_SentinelSkipped ==
    (last.op \in {"apply", "teardown"})
    => /\ \A k \in Lookups(last.log) : last.log[k][3] # NULL
       /\ (IsPatchRequest /\ Admitted /\ Devices \subseteq DOMAIN device_table)
          => last.res \notin {"NotFoundError", "TypeError"}

(***************************************************************************)
(* C14.  Direction: whatever Apply writes for the pair (s, d) is the       *)
(* cross-connect from s's Out_Port to d's In_Port, never the swapped or a  *)
(* same-side combination; get_inport gives a device's Out_Port and         *)
(* get_outport its In_Port.                                                *)
(***************************************************************************)
\* Which pair of the patch list the k-th entry of write w is for: an
\* edit-config carries the pairs in order, the n-th ENT-PATCH is for pair n.
PairOf(log, w, k) ==
    IF log[w][1] = "conn" THEN Cardinality({v \in Writes(log) : v <= w}) ELSE k

\* The <<ingress, egress>> written for pairs, by pair index.
WrittenFor(log) ==
    UNION { IF log[w][1] = "conn"
            THEN {<<PairOf(log, w, 1), log[w][2], log[w][3]>>}
            ELSE {<<PairOf(log, w, k), log[w][2][k][2], log[w][2][k][3]>> :
                     k \in DOMAIN log[w][2]}
            : w \in Writes(log) }

C14_SourceOutToDestinationIn ==
    /\ last.op = "apply"
       => \A t \in WrittenFor(last.log) :
            /\ t[1] \in DOMAIN patch_list
            /\ t[2] = DeviceRows[patch_list[t[1]][1]].Out_Port
            /\ t[3] = DeviceRows[patch_list[t[1]][2]].In_Port
    /\ \A d \in DOMAIN device_table :
            /\ get_inport(device_table, d) = Some(DeviceRows[d].Out_Port)
            /\ get_outport(device_table, d) = Some(DeviceRows[d].In_Port)

\* (B, A) then (A, A): 405 -> 230 and the same-device pair 229 -> 230.
C14_Witness ==
    /\ impl = "netconf_old"
    /\ last.op = "apply"
    /\ last.res = "ok"
    /\ patch_list = << <<"B", "A">>, <<"A", "A">> >>
    /\ WrittenFor(last.log) = {<<1, 405, 230>>, <<2, 229, 230>>}

(***************************************************************************)
(* C15.  Teardown of a patch list that references, on either side of any   *)
(* pair, a device booked by someone else or a device without a row in the  *)
(* directory returns an error and sends no delete edit.                    *)
(***************************************************************************)
C15_TeardownAdmitsAndResolvesLikeApply ==
    (/\ Returned("teardown")
     /\ IsPatchRequest
     /\ \E d \in Devices : BookedBySomeoneElse(d) \/ d \notin DOMAIN device_table)
    => /\ last.res # "ok"
       /\ Writes(last.log) = {}
       /\ xc = last.xc0

(***************************************************************************)
(* C16.  A successful Teardown has sent exactly one edit, whose delete     *)
(* entries name the Out_Port of each pair's source device, one per pair in *)
(* the list's order; it has read no power; and the cross-connects after it *)
(* are those before it without the ones on these ingress ports.            *)
(***************************************************************************)
ExpectedDeletes ==
    [i \in DOMAIN patch_list |-> <<"delete", IngressOf(patch_list[i][1])>>]

TornDown == {IngressOf(patch_list[i][1]) : i \in DOMAIN patch_list}

C16_TeardownOneEditByIngress ==
    (Returned("teardown") /\ last.res = "ok")
    => /\ Cardinality(Writes(last.log)) = 1
       /\ \A w \in Writes(last.log) : last.log[w] = <<"edit_config", ExpectedDeletes>>
       /\ \A k \in DOMAIN last.log : last.log[k][1] # "get_power"
       /\ xc = Restrict(last.xc0, DOMAIN last.xc0 \ TornDown)

\* Two pairs applied, then torn down: only the other user's 17 -> 18 stays.
C16_Witness ==
    /\ impl = "netconf_old"
    /\ patch_list = << <<"B", "A">>, <<"A", "B">> >>
    /\ prev.op = "apply"
    /\ prev.res = "ok"
    /\ last.op = "teardown"
    /\ last.res = "ok"
    /\ last.xc0 = (17 :> 18 @@ 405 :> 230 @@ 229 :> 406)
    /\ xc = OtherXC

(***************************************************************************)
(* C17.  Apply and Teardown refuse an argument that is empty or is not a   *)
(* list with the validation error, before any ownership query, directory   *)
(* lookup, power reading or switch edit; the cross-connects are unchanged. *)
(***************************************************************************)
C17_EmptyOrNonListRefusedFirst ==
    (/\ Returned("apply") \/ Returned("teardown")
     /\ (arg_type # "list" \/ patch_list = <<>>))
    => /\ last.res = "ValidationError"
       /\ last.log = <<>>
       /\ xc = last.xc0

\* A tuple holding one well-formed pair of unbooked, known devices.
C17_Witness ==
    /\ impl = "netconf"
    /\ arg_type = "tuple"
    /\ patch_list = << <<"A", "A">> >>
    /\ check_patch_owners(patch_list, env, active_bookings)
    /\ "A" \in DOMAIN device_table
    /\ last.op = "teardown"
    /\ last.res = "ValidationError"
    /\ prev.op = "apply"
    /\ prev.res = "ValidationError"

(***************************************************************************)
(* Every operation of the surface, in any order.                           *)
(***************************************************************************)
NextAll ==
    \/ Calls
    \/ NextOwn

\* The caller alice passing a list, every device in the directory, and one
\* power reading throughout.
InitAll ==
    /\ InitAlone
    /\ env = EnvOf("alice")
    /\ arg_type = "list"
    /\ device_table = DeviceRows
    /\ power = [p \in Ports |-> Some(500)]

SpecAll == InitAll /\ [][NextAll]_vars

\* Provisioning and the verifier on its own, over a registry that may not
\* answer: a caller passing a list, every device in the directory, one power
\* reading throughout.
NextDown ==
    \/ Calls
    \/ Authorize
    \/ TelnetAuthorize

InitDown ==
    /\ InputsFor(Envs \cup EmptyEnvs)
    /\ wait = NoWait
    /\ registry_up \in BOOLEAN
    /\ arg_type = "list"
    /\ device_table = DeviceRows
    /\ power = [p \in Ports |-> Some(500)]

SpecDown == InitDown /\ [][NextDown]_vars

\* One instance of a NETCONF class, no session yet.
InitNc ==
    /\ impl \in {"netconf", "netconf_old"}
    /\ env = EnvOf("alice")
    /\ patch_list = <<>>
    /\ arg_type = "list"
    /\ registry_up = TRUE
    /\ device_table = DeviceRows
    /\ active_bookings = {}
    /\ ports_new = PortRows("A" :> <<>> @@ "B" :> <<"bob">>)
    /\ power = [p \in Ports |-> Some(500)]
    /\ xc = OtherXC
    /\ last = NoCall
    /\ prev = NoCall
    /\ race = NoRace
    /\ nc = NoSession
    /\ wait = NoWait

SpecNc == InitNc /\ [][NextNc]_vars

\* The device gate: every environment, the registry answering or not, the
\* gated devices free, the caller's, shared or someone else's.
InitGate ==
    /\ impl = "netconf"
    /\ env \in Envs
    /\ patch_list = <<>>
    /\ arg_type = "list"
    /\ registry_up \in BOOLEAN
    /\ device_table = DeviceRows
    /\ active_bookings \in GateBookingTables
    /\ ports_new = PortRows("A" :> <<>> @@ "B" :> <<"bob">>)
    /\ power = [p \in Ports |-> Some(500)]
    /\ xc = OtherXC
    /\ last = NoCall
    /\ prev = NoCall
    /\ race = NoRace
    /\ nc = NoSession
    /\ wait = NoWait

NextGate ==
    \/ ILAInit
    \/ YokogawaConnect

SpecGate == InitGate /\ [][NextGate]_vars

\* The power check of the telnet class: alice applies patch lists over
\* devices free or hers, with every combination of Max_Inpower values and
\* readings.
InitGuard ==
    /\ impl = "telnet"
    /\ env = EnvOf("alice")
    /\ patch_list \in Requests
    /\ arg_type = "list"
    /\ registry_up = TRUE
    /\ device_table = DeviceRows
    /\ active_bookings = {}
    /\ \E limits \in [{"A", "B"} -> MaxInpowerVals] :
         ports_new = PortRowsWith("A" :> <<>> @@ "B" :> <<"alice">>, limits)
    /\ power \in GuardPowerTables
    /\ xc = OtherXC
    /\ last = NoCall
    /\ prev = NoCall
    /\ race = NoRace
    /\ nc = NoSession
    /\ wait = NoWait

NextGuard ==
    \/ TelnetApply
    \/ TelnetPatchLoop

SpecGuard == InitGuard /\ [][NextGuard]_vars

(***************************************************************************)
(* C18.  Only Release changes who owns a device: a step that changes       *)
(* ports_new (the Owner column) or active_bookings is a Release; every     *)
(* Authorize, Apply and Teardown, whatever its result, leaves both tables  *)
(* as they were.                                                           *)
(***************************************************************************)
C18_OnlyReleaseMutatesOwnership ==
    [][(ports_new' # ports_new \/ active_bookings' # active_bookings)
       => last'.op = "release"]_vars

\* B went from bob to alice by a Release, and the Apply after it found
\* and left it so.
C18_Witness ==
    /\ impl = "telnet"
    /\ patch_list = << <<"B", "B">> >>
    /\ prev.op = "release"
    /\ prev.info = <<"alice">>
    /\ last.op = "apply"
    /\ last.res = "ok"
    /\ DOMAIN ports_new = {"A", "B"}
    /\ ports_new["B"].Owner = <<"alice">>
    /\ ports_new["A"].Owner = <<>>

(***************************************************************************)
(* C19.  A Release to user w sets ports_new.Owner of every device the      *)
(* patch list names, the sentinel apart, to exactly w and leaves every     *)
(* other row as it was; it asks the verifier nothing, succeeds whoever     *)
(* holds the devices, and sends no update for "NULL".                      *)
(***************************************************************************)
C19_ReleaseOverwritesNamedOnly ==
    [][last'.op = "release"
       => /\ last'.res = "ok"
          /\ DOMAIN ports_new' = DOMAIN ports_new
          /\ \A n \in DOMAIN ports_new :
               ports_new'[n] =
                   IF n \in Devices THEN [ports_new[n] EXCEPT !.Owner = last'.info]
                   ELSE ports_new[n]
          /\ \A k \in DOMAIN last'.log :
               /\ last'.log[k][1] \in {"connect", "update"}
               /\ last'.log[k][1] = "update" => last'.log[k][3] \in Devices
          /\ \A d \in Devices : \E k \in DOMAIN last'.log :
               last'.log[k] = <<"update", "ports_new.Owner", d>>]_vars

\* B, held by bob, is handed to alice; A, not named, stays without owner.
C19_Witness ==
    /\ impl = "netconf_old"
    /\ patch_list = << <<NULL, "B">> >>
    /\ last.op = "release"
    /\ last.info = <<"alice">>
    /\ prev.op = "none"
    /\ DOMAIN ports_new = {"A", "B"}
    /\ ports_new["B"].Owner = <<"alice">>
    /\ ports_new["A"].Owner = <<>>
    /\ last.log = << <<"connect", "admin">>, <<"update", "ports_new.Owner", "B">> >>

(***************************************************************************)
(* C20.  Release opens its registry connection with the administrative     *)
(* credentials, never with the ordinary ones.                              *)
(***************************************************************************)
C20_ReleaseWithAdminCredentials ==
    (last.op = "release")
    => /\ last.log[1] = <<"connect", "admin">>
       /\ \A k \in DOMAIN last.log : last.log[k] # <<"connect", "ordinary">>

(***************************************************************************)
(* C21.  A registry failure during Authorize propagates as an error:       *)
(* when the verifier's connection or query fails, Authorize does not       *)
(* return true (nor false: the error leaves the call), and an Apply or     *)
(* Teardown that got as far as the verifier sends no edit and leaves the   *)
(* cross-connects as they were.                                            *)
(***************************************************************************)
\* The verifier of the run's class reaches the registry in the last call,
\* and the registry does not answer.
VerifierFailed ==
    /\ ~registry_up
    /\ last.op \in {"authorize", "apply", "teardown"}
    /\ IF impl = "telnet" THEN last.op = "authorize" \/ patch_list # <<>>
       ELSE TruthyStr(ActingUser) /\ Devices # {}

C21_RegistryFailurePropagates ==
    (VerifierFailed /\ ~Waiting)
    => /\ last.res = "RegistryError"
       /\ Writes(last.log) = {}
       /\ xc = last.xc0

C21_Witness ==
    /\ VerifierFailed
    /\ last.op = "apply"
    /\ prev.op = "authorize"
    /\ prev.res = "RegistryError"
    /\ impl = "netconf"
    /\ patch_list = << <<"A", "B">> >>

(***************************************************************************)
(* C22.  Whenever Authorize returns false, what it printed names every     *)
(* referenced device that is missing from the directory and every          *)
(* referenced device owned by someone else, with its owners; and a         *)
(* referenced name that is not in the directory never passes as an         *)
(* unbooked, authorized device: Authorize does not return true for it.     *)
(***************************************************************************)
\* The directory the run's class resolves names in.
Directory == IF impl = "telnet" THEN ports_new ELSE device_table

Missing == {d \in Devices : d \notin DOMAIN Directory}

ReportedMissing(d) ==
    \E r \in last.info : r[1] = "Nonexistent ports:" /\ InSeq(d, r[2])

ReportedOwned(d) ==
    \E r \in last.info :
        \/ r[1] = "is owned by" /\ r[2] = d /\ r[3] = OwnerSet(d)
        \/ r[1] = "Ports with other owners:" /\ InSeq(ports_new[d].Owner, r[2])

C22_FalseReportsMissingAndOwned ==
    last.op = "authorize"
    => /\ last.res = "False"
          => /\ \A d \in Missing : ReportedMissing(d)
             /\ \A d \in Devices : BookedBySomeoneElse(d) => ReportedOwned(d)
       /\ Missing # {} => last.res # "True"

(***************************************************************************)
(* C23.  The power check rejects a pair if and only if the measured power  *)
(* is strictly greater than the limit it compares against: a rejection     *)
(* carries a measured power above its limit, every pair connected was      *)
(* measured at or below its limit (equality included), and the measured    *)
(* power is the reading of the source's ingress port.                      *)
(***************************************************************************)
\* The positions of the lines printed for the pairs connected.
Connected(log) == {i \in DOMAIN log : log[i][1] = "print"}

\* The reading of a port as the guard receives it.
Measured(port) == IF power[port] = None THEN NoReadingPower ELSE Val(power[port])

\* The pair the last Apply stopped at.
Stopped == patch_list[Cardinality(Connected(last.log)) + 1]

C23_RejectsIffStrictlyAbove ==
    (Returned("apply") /\ impl = "telnet")
    => /\ \A i \in Connected(last.log) :
            /\ last.log[i][4] = Measured(last.log[i][3])
            /\ last.log[i][4] <= last.log[i][8]
            /\ last.log[i - 2] = <<"conn", last.log[i][3], last.log[i][6]>>
       /\ last.res = "SafetyLimitError"
          => /\ last.info[1] = Measured(IngressOf(Stopped[1]))
             /\ last.info[1] > last.info[2]
             /\ IngressOf(Stopped[1]) \notin DOMAIN xc \/ IngressOf(Stopped[1]) \in DOMAIN last.xc0
       /\ last.res = "ok" => Cardinality(Connected(last.log)) = Len(patch_list)

\* A pair measured exactly at its limit is connected.
C23_Witness ==
    /\ last.op = "apply"
    /\ impl = "telnet"
    /\ last.res = "ok"
    /\ \E i \in Connected(last.log) :
         /\ last.log[i][4] = last.log[i][8]
         /\ last.log[i][3] \in DOMAIN xc

(***************************************************************************)
(* C24.  The limit the power check compares against for a pair (A, B) is   *)
(* the ceiling of the destination B, not that of the source A: no pair is  *)
(* connected with a measured power above its destination's ceiling, and a  *)
(* rejection names the destination's ceiling as its limit.                 *)
(***************************************************************************)
C24_LimitIsDestinationCeiling ==
    (last.op = "apply" /\ impl = "telnet")
    => /\ \A i \in Connected(last.log) : last.log[i][4] <= Ceiling(last.log[i][5])
       /\ last.res = "SafetyLimitError" => last.info[2] = Ceiling(Stopped[2])

(***************************************************************************)
(* C25.  The power check uses the default ceiling of 20 dBm if and only if *)
(* the device has no configured Max_Inpower; every configured value, zero  *)
(* and negative values included, is the limit as configured.  Stated for   *)
(* the pairs whose source and destination carry the same Max_Inpower, so   *)
(* that it does not matter which of the two the check consults.            *)
(***************************************************************************)
SameConfigured(a, b) == ports_new[a].Max_Inpower = ports_new[b].Max_Inpower

C25_DefaultIffUnconfigured ==
    (last.op = "apply" /\ impl = "telnet")
    => /\ \A i \in Connected(last.log) :
            SameConfigured(last.log[i][2], last.log[i][5])
            => /\ last.log[i][8] = Ceiling(last.log[i][5])
               /\ last.log[i][8] = DefaultMaxInpower
                  <=> ports_new[last.log[i][5]].Max_Inpower = None
       /\ (last.res = "SafetyLimitError" /\ SameConfigured(Stopped[1], Stopped[2]))
          => /\ last.info[2] = Ceiling(Stopped[2])
             /\ last.info[2] = DefaultMaxInpower <=> ports_new[Stopped[2]].Max_Inpower = None

(***************************************************************************)
(* C26.  The device gate: constructing an ILA for a valid device name, or  *)
(* calling YokogawaOSA.connect, when the ownership check of the device's   *)
(* names fails raises an error and opens no connection to the device; a    *)
(* connection is opened only after check_patch_owners has returned true    *)
(* (a user exists, the registry answered, and no name of the device is     *)
(* booked by someone else).                                                *)
(***************************************************************************)
\* The names the gate of the last call checks.
GateNames ==
    IF last.op = "ila_init" THEN {fwd(last.info), bck(last.info)} ELSE {"Yoko_OSA"}

\* The positions at which the last call opened a connection to a device.
Opens(log) == {i \in DOMAIN log : log[i][1] \in {"manager.connect", "open_resource"}}

\* The ownership check of the gate's names comes out true.
GateCheckPasses ==
    /\ TruthyStr(unix_user(env))
    /\ registry_up
    /\ \A n \in GateNames : ~BookedBySomeoneElse(n)

\* The call got as far as its gate.
AtGate ==
    \/ last.op = "yokogawa_connect"
    \/ last.op = "ila_init" /\ last.info \in DOMAIN ILAHosts /\ last.res # "SystemExit"

C26_ConnectOnlyAfterCheck ==
    /\ AtGate
       => /\ ~GateCheckPasses
             => /\ last.res \in {"NotAuthorized", "RegistryError"}
                /\ Opens(last.log) = {}
          /\ \A i \in Opens(last.log) :
                /\ GateCheckPasses
                /\ i = Len(last.log)
                /\ \E k \in 1..(i - 1) : last.log[k] = <<"check_patch_owners">>
    /\ last.op \in {"ila_init", "yokogawa_connect"}
       => Cardinality(Opens(last.log)) <= 1 /\ (Opens(last.log) # {} <=> last.res = "ok")

C26_Witness ==
    /\ last.op = "ila_init"
    /\ last.info = "ila_1"
    /\ last.res = "NotAuthorized"
    /\ Opens(last.log) = {}
    /\ prev.op = "yokogawa_connect"
    /\ prev.res = "ok"

(***************************************************************************)
(* C27.  Whenever Apply returns an error that is not a failure of the      *)
(* edit-config call itself, the switch's cross-connects are those before   *)
(* the call; in particular the error of a power read-back after the edit   *)
(* never comes with the request's cross-connects already created.          *)
(***************************************************************************)
C27_ErrorLeavesSwitchUntouched ==
    (Returned("apply") /\ last.res \notin {"ok", "EditError"})
    => /\ xc = last.xc0
       /\ Writes(last.log) = {}

(***************************************************************************)
(* C28.  If the switch gives no power reading for the source port of a     *)
(* pair, the power check does not take the missing reading for a safe      *)
(* power: Apply creates no cross-connect for that pair.                    *)
(***************************************************************************)
\* The source port of pair i has no reading.
NoReading(i) ==
    /\ patch_list[i][1] \in DOMAIN ports_new
    /\ power[IngressOf(patch_list[i][1])] = None

C28_NoReadingNoCrossConnect ==
    last.op = "apply"
    => /\ \A i \in Connected(last.log) : power[last.log[i][3]] # None
       /\ \A i \in DOMAIN patch_list :
            NoReading(i) => \A w \in Writes(last.log) :
                               last.log[w][2] # IngressOf(patch_list[i][1])

(***************************************************************************)
(* C29.  The acting user of Authorize is SUDO_USER when it is set and not  *)
(* empty, otherwise USER.  When neither gives a user, check_patch_owners   *)
(* returns false without querying the registry, whatever the patch list;   *)
(* when there is a user and the patch list has only "NULL" entries (or     *)
(* none), it returns true without querying the registry; otherwise it      *)
(* queries, and returns true exactly when every device is free or booked   *)
(* by that user.                                                           *)
(***************************************************************************)
\* The user the environment names: SUDO_USER first, USER second.
NamedUser ==
    IF env.SUDO_USER # None /\ Val(env.SUDO_USER) # "" THEN env.SUDO_USER
    ELSE IF env.USER # None /\ Val(env.USER) # "" THEN env.USER
    ELSE None

Queried(log) == \E i \in DOMAIN log : log[i] = <<"query", "active_bookings">>

C29_ActingUserAndShortCuts ==
    (last.op = "authorize" /\ impl \in {"netconf", "netconf_old"})
    => /\ NamedUser = None => last.res = "False" /\ ~Queried(last.log)
       /\ (NamedUser # None /\ Devices = {}) => last.res = "True" /\ ~Queried(last.log)
       /\ (NamedUser # None /\ Devices # {})
          => /\ Queried(last.log)
             /\ registry_up => (last.res = "True" <=> AllFreeOrMine(Val(NamedUser)))
             /\ ~registry_up => last.res = "RegistryError"

\* USER set but empty and an unreachable registry: false all the same.
C29_Witness ==
    /\ last.op = "authorize"
    /\ impl = "netconf"
    /\ env.USER = Some("")
    /\ NamedUser = None
    /\ ~registry_up
    /\ Devices # {}
    /\ last.res = "False"
    /\ ~Queried(last.log)

(***************************************************************************)
(* C30.  The NETCONF session of one instance, after any sequence of        *)
(* connect, close, login, logout and switch operations: at most one        *)
(* session is open; connect while a session is connected opens no new      *)
(* session; close always leaves the instance without a session, also when  *)
(* close_session raises, and may be repeated; every operation after a      *)
(* close first opens a new session, so that no operation is sent on a      *)
(* closed session: an operation sends exactly once, on a session that was  *)
(* connected before it or on the one it has just opened, whether the       *)
(* switch then answers or refuses the request, and sends nothing only when *)
(* no session could be opened.  The same holds of the edit of a direct     *)
(* create or delete of cross-connects; a direct call with an empty list    *)
(* sends no edit and opens no session.                                     *)
(***************************************************************************)
Sends(log) == {i \in DOMAIN log : log[i][1] = "send"}

DirectOps == {"create_cross_connect", "delete_cross_connect",
              "create_cross_connects", "delete_cross_connects"}

C30_SessionLifecycle ==
    /\ Cardinality(nc.live) <= 1
    /\ nc.mgr # None => Val(nc.mgr) \in 1..nc.opened
    /\ (last.op = "connect" /\ connected(last.info))
       => NewSessions(last.log) = {} /\ nc.opened = last.info.opened
    /\ last.op = "close"
       => /\ last.res = "ok"
          /\ nc.mgr = None
          /\ nc.live = {}
          /\ prev.op = "close" => last.log = <<>>
    /\ (last.op = "operation" /\ last.res # "ConnectError")
       => /\ last.res \in {"ok", "RPCError"}
          /\ Cardinality(Sends(last.log)) = 1
          /\ \A i \in Sends(last.log) :
                /\ last.log[i][2] \in last.info.live \/ last.log[i][2] > last.info.opened
                /\ connected(last.info) => last.log[i][2] = Val(last.info.mgr)
                /\ ~connected(last.info)
                   => /\ last.log[i][2] = last.info.opened + 1
                      /\ i > 1
                      /\ last.log[i - 1] = <<"manager.connect", last.log[i][2]>>
    /\ (last.op = "operation" /\ last.res = "ConnectError")
       => /\ Sends(last.log) = {}
          /\ ~connected(last.info)
          /\ NewSessions(last.log) = {}
          /\ nc.opened = last.info.opened
    /\ last.op \in DirectOps
       => /\ connected(last.info) => NewSessions(last.log) = {}
          /\ edits(last.log) = {}
             => NewSessions(last.log) = {} /\ nc.opened = last.info.opened
          /\ Cardinality(edits(last.log)) <= 1
          /\ (edits(last.log) # {} /\ ~connected(last.info))
             => /\ last.log[1] = <<"manager.connect", last.info.opened + 1>>
                /\ edits(last.log) = {2}
          /\ last.res = "ConnectError" => edits(last.log) = {} /\ xc = last.xc0

\* An operation right after a close whose close_session raised: it opened
\* the second session and went out on it.
C30_Witness ==
    /\ last.op = "operation"
    /\ last.res = "ok"
    /\ prev.op = "close"
    /\ prev.log = << <<"close_session", 1>>, <<"logger.exception">> >>
    /\ last.log = << <<"manager.connect", 2>>, <<"send", 2>> >>
    /\ nc.live = {2}

====
